---- MODULE Spec2Model ----
(***************************************************************************)
(* A model of the lumen storage core: the B+Tree of src/index/btree.cpp    *)
(* over the StorageEngine and BufferPool, the page-level BTreeIndex of     *)
(* src/index/btree_index.cpp, and the BufferPool's locking.                *)
(***************************************************************************)
EXTENDS Integers, Sequences, FiniteSets, TLC

(* ------------------------------ bounds -------------------------------- *)
\* BTreeConfig::min_degree, scaled down from its default so that splits,
\* borrows and merges happen with a handful of keys.
min_degree == 2
\* Keys are the integers 1..MaxKey, values 1..MaxVal.
MaxKey == 5
MaxVal == 2
\* Page ids the model lets the pool hand out (ids are never reused).
MaxPages == 5
\* Bytes of a BTreeIndex page's data area the model keeps; the rest of the
\* 16 KiB page stays zero as created.
DataLen == 40
\* BTreeIndex::get_max_keys_per_page, scaled down from 255
MaxKeysPerPage == 3
\* Calls of BTreeIndex::insert in one run of the model
MaxInserts == 6
\* Keys 1..MaxIndexKey are inserted into a BTreeIndex
MaxIndexKey == 3

(* ----------------------------- constants ------------------------------ *)
kInvalidPageID == 0
kPageSize == 16384
BufferPoolConfig_pool_size == 1024
PageHeaderV2_kSize == 16
BTreePageHeader_kSize == 24
BTreePageType_Internal == 4
BTreePageType_Leaf == 5
DataType_Null == 0
DataType_Int32 == 3
DataType_String == 12
DataType_Blob == 13
DataType_Vector == 15
DataType_Json == 16

Keys == 1..MaxKey
Vals == 1..MaxVal
PageIds == 1..MaxPages

\* "no page" / nullptr
NoPage == [node_type |-> "None"]

\* F applied to the value of e, e evaluated once (a local variable of the code)
With(e, F(_)) == CHOOSE r \in {F(x) : x \in {e}} : TRUE
With2(e1, e2, F(_, _)) == CHOOSE r \in {F(x, y) : x \in {e1}, y \in {e2}} : TRUE

(* ===================== src/index/btree.cpp: nodes ===================== *)
(* A node object is a record.  keys, values and children are the std::     *)
(* vectors of the class (0-based index i is element i+1 here); num_keys    *)
(* always equals keys_.size() in the code, so it is Len(keys).  spare is   *)
(* the initialised memory that lies behind children_.end(): what a read    *)
(* past the end of the vector finds in a build that does not check it.     *)

BTreeNode(page_id, type) ==
    [page_id |-> page_id, node_type |-> type, level |-> 0,
     parent_id |-> kInvalidPageID, next_id |-> kInvalidPageID,
     prev_id |-> kInvalidPageID,
     keys |-> <<>>, values |-> <<>>, children |-> <<>>, spare |-> <<>>]

num_keys(n) == Len(n.keys)
is_leaf(n) == n.node_type = "Leaf"
is_internal(n) == n.node_type = "Internal"
min_keys(n) == IF is_leaf(n) THEN min_degree - 1 ELSE min_degree
max_keys == 2 * min_degree - 1
is_full(n) == num_keys(n) >= max_keys
is_underflow(n) == num_keys(n) < min_keys(n)

\* Value() (Null) sorts below every key; keys are positive, so Null is 0.
key_at(n, index) == IF index >= num_keys(n) THEN 0 ELSE n.keys[index + 1]
value_at(n, index) == IF index >= num_keys(n) THEN 0 ELSE n.values[index + 1]

set_key_at(n, index, key) ==
    IF index >= 0 /\ index < Len(n.keys)
    THEN [n EXCEPT !.keys[index + 1] = key] ELSE n

compare_keys(a, b) == IF a < b THEN -1 ELSE IF a > b THEN 1 ELSE 0

RECURSIVE lower_bound(_, _, _, _)
lower_bound(keys, key, left, right) ==
    IF left < right
    THEN LET mid == (left + right) \div 2
         IN IF compare_keys(keys[mid + 1], key) < 0
            THEN lower_bound(keys, key, mid + 1, right)
            ELSE lower_bound(keys, key, left, mid)
    ELSE left

search_key(n, key) == lower_bound(n.keys, key, 0, num_keys(n))

\* std::vector primitives on a sequence
InsertAt(s, pos, x) == SubSeq(s, 1, pos) \o <<x>> \o SubSeq(s, pos + 1, Len(s))
EraseAt(s, pos) == SubSeq(s, 1, pos) \o SubSeq(s, pos + 2, Len(s))
Zeros(k) == [i \in 1..k |-> kInvalidPageID]

\* children_[index] read without a bounds check: inside the vector the
\* element, behind its end the stale memory.  -1 stands for memory the
\* object never initialised (no call of the model reads that far).
raw_child(n, index) ==
    IF index < Len(n.children) THEN n.children[index + 1]
    ELSE IF index - Len(n.children) < Len(n.spare)
         THEN n.spare[index - Len(n.children) + 1]
         ELSE -1

\* TRUE when children_[index] is a read past the end of the vector
past_end(n, index) == index >= Len(n.children)

child_at(n, index) ==
    IF index > num_keys(n) THEN kInvalidPageID ELSE raw_child(n, index)

children_resize(n, k) ==
    IF k >= Len(n.children)
    THEN [n EXCEPT !.children = @ \o Zeros(k - Len(@)),
                   !.spare = SubSeq(@, k - Len(n.children) + 1, Len(@))]
    ELSE [n EXCEPT !.children = SubSeq(@, 1, k),
                   !.spare = SubSeq(n.children, k + 1, Len(n.children)) \o @]

set_child_at(n, index, child_id) ==
    IF index <= num_keys(n)
    THEN LET m == IF index >= Len(n.children)
                  THEN children_resize(n, index + 1) ELSE n
         IN [m EXCEPT !.children[index + 1] = child_id]
    ELSE n

\* called by insert_key_child before num_keys is incremented: nk is the
\* header's num_keys at the time of the call
insert_child(n, nk, index, child_id) ==
    IF index <= nk + 1
    THEN LET m == IF Len(n.children) <= nk + 1
                  THEN children_resize(n, nk + 2) ELSE n
         IN [m EXCEPT !.children = InsertAt(@, index, child_id),
                      !.spare = IF @ = <<>> THEN @ ELSE Tail(@)]
    ELSE n

remove_child(n, index) ==
    IF index <= num_keys(n)
    THEN [n EXCEPT !.children = EraseAt(@, index),
                   !.spare = <<n.children[Len(n.children)]>> \o @]
    ELSE n

\* index is a size_t: -1 is SIZE_MAX and fails the guard
insert_key_child(n, index, key, child_id) ==
    IF index >= 0 /\ index <= num_keys(n)
    THEN LET m == insert_child(n, num_keys(n), index + 1, child_id)
         IN [m EXCEPT !.keys = InsertAt(@, index, key)]
    ELSE n

\* BTreeInternalNode::split: the new right node, the middle key, the rest
internal_split(n) ==
    LET mid_index == num_keys(n) \div 2
        new_node == [BTreeNode(kInvalidPageID, "Internal") EXCEPT
                        !.level = n.level,
                        !.parent_id = n.parent_id,
                        !.keys = SubSeq(n.keys, mid_index + 2, num_keys(n)),
                        !.children = [i \in 1..(num_keys(n) - mid_index) |->
                                         raw_child(n, mid_index + i)]]
        left == [children_resize(n, mid_index + 1) EXCEPT
                        !.keys = SubSeq(n.keys, 1, mid_index)]
    IN [key |-> n.keys[mid_index + 1], new_node |-> new_node, node |-> left]

\* the first position behind pos that does not hold key
RECURSIVE past_duplicates(_, _, _)
past_duplicates(n, pos, key) ==
    IF pos < num_keys(n) /\ compare_keys(n.keys[pos + 1], key) = 0
    THEN past_duplicates(n, pos + 1, key) ELSE pos

\* BTreeLeafNode::insert_entry; config is config.allow_duplicates
insert_entry(n, key, value, config) ==
    With(search_key(n, key), LAMBDA pos :
        IF ~config /\ pos < num_keys(n) /\ compare_keys(n.keys[pos + 1], key) = 0
        THEN [ok |-> FALSE, node |-> n]
        ELSE With(IF config THEN past_duplicates(n, pos, key) ELSE pos,
                  LAMBDA at :
                     [ok |-> TRUE,
                      node |-> [n EXCEPT !.keys = InsertAt(@, at, key),
                                         !.values = InsertAt(@, at, value)]]))

remove_entry(n, key) ==
    With(search_key(n, key), LAMBDA pos :
        IF pos >= num_keys(n) \/ compare_keys(n.keys[pos + 1], key) # 0
        THEN [ok |-> FALSE, node |-> n]
        ELSE [ok |-> TRUE,
              node |-> [n EXCEPT !.keys = EraseAt(@, pos),
                                 !.values = EraseAt(@, pos)]])

\* std::nullopt is 0
find_value(n, key) ==
    With(search_key(n, key), LAMBDA pos :
        IF pos < num_keys(n) /\ compare_keys(n.keys[pos + 1], key) = 0
        THEN n.values[pos + 1] ELSE 0)

leaf_split(n) ==
    LET mid_index == num_keys(n) \div 2
        new_node == [BTreeNode(kInvalidPageID, "Leaf") EXCEPT
                        !.parent_id = n.parent_id,
                        !.keys = SubSeq(n.keys, mid_index + 1, num_keys(n)),
                        !.values = SubSeq(n.values, mid_index + 1, num_keys(n)),
                        !.next_id = n.next_id,
                        !.prev_id = n.page_id]
        left == [n EXCEPT !.keys = SubSeq(@, 1, mid_index),
                          !.values = SubSeq(@, 1, mid_index)]
    IN [key |-> n.keys[mid_index + 1], new_node |-> new_node, node |-> left]

\* serialize_to: the header, num_keys keys and, for a leaf, the values,
\* for an internal node children_[0..num_keys] read without a check.
serialize_to(n) ==
    IF is_leaf(n)
    THEN [n EXCEPT !.children = <<>>, !.spare = <<>>]
    ELSE [n EXCEPT !.values = <<>>, !.spare = <<>>,
                   !.children = [i \in 1..(num_keys(n) + 1) |->
                                    raw_child(n, i - 1)]]

\* TRUE when serialize_to reads children_ past the end of the vector
serialize_reads_past_end(n) ==
    is_internal(n) /\ past_end(n, num_keys(n))

\* deserialize_from: the node object rebuilt from a page image
deserialize_from(img) ==
    IF img.node_type = "Internal"
    THEN [img EXCEPT !.values = <<>>, !.spare = <<>>]
    ELSE [img EXCEPT !.node_type = "Leaf", !.children = <<>>, !.spare = <<>>]

(* ======== StorageEngine and BufferPool as one tree operation sees them == *)
(* A tree operation runs under the tree lock, so its calls into storage    *)
(* are sequential.  s is the state threaded through one operation:         *)
(*   pages          page id -> image held by the pool's frame, or NoPage    *)
(*   disk           page id -> the images in the page's file, in order      *)
(*   frame_dirty    page ids whose frame has is_dirty set                   *)
(*   free_pages     StorageEngine::free_pages_                              *)
(*   next_page_id   BufferPool::next_page_id_                               *)
(*   root_page_id, height, size   the tree's fields                         *)
(*   aborted        the process died (checked access, null dereference)     *)
(*                  or the call never returns                               *)
(*   hardened       the build traps on undefined behaviour                  *)
(*   attached       the pool is connected to the engine                     *)
(*                  (StorageEngineFactory::create); a StorageEngine built   *)
(*                  by its constructor alone has a pool that writes and     *)
(*                  reads nothing                                           *)
(* The trees never unpin a page (PageRef only wraps a shared_ptr), so a     *)
(* fetched or new page stays pinned: the pool never evicts it and its      *)
(* delete_page refuses it.                                                  *)

\* Page::header_.lsn is the 8 bytes at offset 16 of the page; a BTreeIndex
\* page keeps node_type, level, key_count and parent_page in those bytes
\* (its header starts at PageHeaderV2::kSize = 16).  lsn is <<low, high>>,
\* the two 32-bit halves.  A BTree node lies behind PageHeader::kSize = 32
\* and has no field there.
lsn_of(img) ==
    <<img.node_type + 256 * img.level + 65536 * img.key_count, img.parent_page>>

\* Page::serialize_to: header_ is copied over the first bytes of the data
Page_serialize_to(img) ==
    IF "lsn" \in DOMAIN img
    THEN [img EXCEPT !.node_type = img.lsn[1] % 256,
                     !.level = (img.lsn[1] \div 256) % 256,
                     !.key_count = img.lsn[1] \div 65536,
                     !.parent_page = img.lsn[2]]
    ELSE img

\* Page::deserialize_from: header_ is read back from the data
Page_deserialize_from(img) ==
    IF "lsn" \in DOMAIN img THEN [img EXCEPT !.lsn = lsn_of(img)] ELSE img

\* a page file is readable when it holds exactly kPageSize bytes
read_page_from_disk(s, page_id) ==
    IF Len(s.disk[page_id]) = 1
    THEN Page_deserialize_from(s.disk[page_id][1]) ELSE NoPage

\* PageFactory::create_page: zeroed data under a fresh header
BlankPage ==
    [lsn |-> <<0, 0>>, node_type |-> 0, level |-> 0, key_count |-> 0,
     parent_page |-> 0, next_page |-> 0, prev_page |-> 0, free_space |-> 0,
     data |-> [i \in 1..DataLen |-> 0]]

\* StorageEngine::fetch_page.  On a miss the pool reads through the engine;
\* a pool that is not attached makes up a blank page instead.
fetch_page(s, page_id) ==
    IF page_id \in s.free_pages THEN NoPage
    ELSE IF page_id \in PageIds /\ s.pages[page_id] # NoPage
    THEN s.pages[page_id]
    ELSE IF ~s.attached THEN BlankPage
    ELSE IF page_id \in PageIds THEN read_page_from_disk(s, page_id)
    ELSE NoPage

\* the page file is opened with std::ios::app: every write appends.  The
\* write serializes the page, which rewrites the head of its data.
write_page_to_disk(s, page_id) ==
    With(Page_serialize_to(s.pages[page_id]), LAMBDA img :
        [s EXCEPT !.pages[page_id] = img,
                  !.disk[page_id] = Append(@, img)])

\* BufferPool::write_page_to_storage
write_page_to_storage(s, page_id) ==
    IF s.attached THEN write_page_to_disk(s, page_id) ELSE s

flush_page(s0, page_id) ==
    With(s0, LAMBDA s :
        IF s.aborted \/ page_id \notin PageIds THEN s
        ELSE IF s.pages[page_id] = NoPage \/ page_id \notin s.frame_dirty THEN s
        ELSE [write_page_to_storage(s, page_id) EXCEPT
                 !.frame_dirty = @ \ {page_id}])

\* No caller of the engine unpins a page (PageRef holds the page, not the
\* pin), so a frame once taken stays taken: the pool is full when the pages
\* it holds are as many as the frames left to them, and find_free_frame and
\* evict_frame both fail.
pool_full(s) ==
    Cardinality({p \in PageIds : s.pages[p] # NoPage}) >= s.pool_room

\* the id of the page new_page hands out in state s: nullptr (create_node
\* returns kInvalidPageID) when the pool is full
created(s) == IF pool_full(s) THEN kInvalidPageID ELSE s.next_page_id

\* BufferPool::new_page then the caller's write of img into the page.  The
\* id is taken before the frame is looked for.  An id past MaxPages only
\* counts: the calling action is not taken then.
new_page(s, img) ==
    IF s.next_page_id \notin PageIds \/ pool_full(s)
    THEN [s EXCEPT !.next_page_id = @ + 1]
    ELSE [s EXCEPT !.pages[s.next_page_id] = img,
                   !.frame_dirty = @ \cup {s.next_page_id},
                   !.next_page_id = @ + 1]

\* StorageEngine::delete_page: the pool keeps the pinned frame, the id
\* joins free_pages_, the page file is removed
delete_page(s, page_id) ==
    IF page_id \notin PageIds THEN s
    ELSE [s EXCEPT !.free_pages = @ \cup {page_id},
                   !.disk[page_id] = <<>>]

\* BufferPool::reset: every frame cleared, ids restart at 1
reset(s) ==
    [s EXCEPT !.pages = [p \in PageIds |-> NoPage],
              !.frame_dirty = {},
              !.next_page_id = 1]

RECURSIVE flush_pages_from(_, _)
flush_pages_from(s0, page_id) ==
    With(s0, LAMBDA s :
        IF page_id > MaxPages THEN s
        ELSE flush_pages_from(flush_page(s, page_id), page_id + 1))

flush_all_pages(s) == flush_pages_from(s, 1)

(* ======================= src/index/btree.cpp: BTree ==================== *)
Abort(s) == [s EXCEPT !.aborted = TRUE]

load_node(s, id) ==
    With(id, LAMBDA page_id :
        IF page_id = kInvalidPageID THEN NoPage
        ELSE With(fetch_page(s, page_id), LAMBDA page :
                 IF page = NoPage THEN NoPage ELSE deserialize_from(page)))

\* returns the state; the new node's id is created(s)
create_node(s0, type) ==
    With(s0, LAMBDA s :
        IF s.aborted THEN s
        ELSE new_page(s, serialize_to(BTreeNode(s.next_page_id, type))))

\* fetch, serialize into the page, Page::mark_dirty (the page's own flag,
\* not the frame's is_dirty), StorageEngine::flush_page
save_node(s0, node0) ==
    With2(s0, node0, LAMBDA s, node :
        IF s.aborted \/ fetch_page(s, node.page_id) = NoPage THEN s
        ELSE IF serialize_reads_past_end(node) /\ s.hardened THEN Abort(s)
        ELSE flush_page([s EXCEPT !.pages[node.page_id] = serialize_to(node)],
                        node.page_id))

delete_node(s0, page_id) ==
    With(s0, LAMBDA s : IF s.aborted THEN s ELSE delete_page(s, page_id))

\* the child index find_leaf_node and insert_internal descend into
descend_index(node, key) ==
    With(search_key(node, key), LAMBDA child_index :
        IF child_index < num_keys(node)
           /\ compare_keys(key, key_at(node, child_index)) >= 0
        THEN child_index + 1 ELSE child_index)

RECURSIVE find_leaf_from(_, _, _)
find_leaf_from(s, node0, key) ==
    With(node0, LAMBDA node :
        IF node = NoPage \/ is_leaf(node) THEN node
        ELSE find_leaf_from(
                 s, load_node(s, child_at(node, descend_index(node, key))), key))

find_leaf_node(s, key) == find_leaf_from(s, load_node(s, s.root_page_id), key)

find_internal(s0, key) ==
    With(s0, LAMBDA s :
        With(find_leaf_node(s, key), LAMBDA leaf :
            IF leaf = NoPage THEN 0 ELSE find_value(leaf, key)))

\* the old next leaf's prev pointer after a leaf split
relink_next(s0, old_next, new_page_id) ==
    With(s0, LAMBDA s :
        IF old_next = kInvalidPageID THEN s
        ELSE With(load_node(s, old_next), LAMBDA next_node :
                 IF next_node # NoPage /\ is_leaf(next_node)
                 THEN save_node(s, [next_node EXCEPT !.prev_id = new_page_id])
                 ELSE s))

\* the tail shared by split_child and split_root once the node is split:
\* link the two halves (leaves), save both and flush them
link_halves(s, sp, leaf, new_page_id, parent_id) ==
    LET old_next == sp.node.next_id
        new_node == IF leaf
                    THEN [sp.new_node EXCEPT !.page_id = new_page_id,
                                             !.parent_id = parent_id,
                                             !.prev_id = sp.node.page_id,
                                             !.next_id = old_next]
                    ELSE [sp.new_node EXCEPT !.page_id = new_page_id,
                                             !.parent_id = parent_id]
        old_node == IF leaf
                    THEN [sp.node EXCEPT !.next_id = new_page_id] ELSE sp.node
    IN [s1 |-> IF leaf THEN relink_next(s, old_next, new_page_id) ELSE s,
        old_node |-> old_node, new_node |-> new_node]

\* returns the state and the parent object as the caller goes on using it
split_child(s, parent, child_index) ==
    With(load_node(s, child_at(parent, child_index)), LAMBDA child :
    With(IF is_leaf(child) THEN leaf_split(child) ELSE internal_split(child),
         LAMBDA sp :
    With(link_halves(create_node(s, child.node_type), sp, is_leaf(child),
                     created(s), parent.page_id), LAMBDA h :
    With(insert_key_child(parent, child_index, sp.key, created(s)),
         LAMBDA new_parent :
        [st |-> flush_page(flush_page(flush_page(
                    save_node(save_node(save_node(h.s1, new_parent),
                                        h.old_node), h.new_node),
                    new_parent.page_id), h.old_node.page_id), created(s)),
         parent |-> new_parent]))))

\* BTree::split_root up to the save of the new root
split_root_saved(s) ==
    With(load_node(s, s.root_page_id), LAMBDA old_root :
    With(create_node(s, "Internal"), LAMBDA s1 :
    With(IF is_leaf(old_root) THEN leaf_split(old_root)
         ELSE internal_split(old_root), LAMBDA sp :
    With(link_halves(create_node(s1, old_root.node_type), sp, is_leaf(old_root),
                     created(s1), sp.new_node.parent_id), LAMBDA h :
    With(insert_key_child(
             set_child_at([BTreeNode(created(s), "Internal") EXCEPT
                              !.level = old_root.level + 1],
                          0, s.root_page_id),
             0, sp.key, created(s1)), LAMBDA new_root :
        flush_page(save_node(
             flush_page(flush_page(save_node(save_node(h.s1, h.old_node),
                                             h.new_node),
                                   h.old_node.page_id), created(s1)),
             new_root), created(s)))))))

\* a root split that does not count the new level
split_root_flat(s) ==
    With(split_root_saved(s), LAMBDA s6 :
        IF s6.aborted THEN s6
        ELSE [s6 EXCEPT !.root_page_id = created(s)])

split_root(s) ==
    With(split_root_saved(s), LAMBDA s6 :
        IF s6.aborted THEN s6
        ELSE [s6 EXCEPT !.root_page_id = created(s), !.height = @ + 1])

\* the loop of insert_internal from `node` down, then the leaf insert
RECURSIVE insert_from(_, _, _, _)
insert_from(s0, node0, key, value) ==
    With2(s0, node0, LAMBDA s, node :
        IF s.aborted THEN [st |-> s, result |-> FALSE]
        ELSE IF node = NoPage THEN [st |-> Abort(s), result |-> FALSE]
        ELSE IF is_leaf(node)
        THEN With(insert_entry(node, key, value, s.allow_duplicates), LAMBDA r :
                 IF r.ok
                 THEN With(save_node(s, r.node), LAMBDA s1 :
                          [st |-> IF s1.aborted THEN s1
                                  ELSE [s1 EXCEPT !.size = @ + 1],
                           result |-> TRUE])
                 ELSE [st |-> s, result |-> FALSE])
        ELSE With(descend_index(node, key), LAMBDA child_index :
             With(load_node(s, child_at(node, child_index)), LAMBDA child :
                 IF child = NoPage     \* child->is_full() on a null pointer
                 THEN [st |-> Abort(s), result |-> FALSE]
                 ELSE IF is_full(child)
                 THEN With(split_child(s, node, child_index), LAMBDA sc :
                      With(save_node(sc.st, sc.parent), LAMBDA s1 :
                          insert_from(
                              s1,
                              load_node(s1, child_at(sc.parent,
                                  IF compare_keys(key, key_at(sc.parent,
                                                              child_index)) >= 0
                                  THEN child_index + 1 ELSE child_index)),
                              key, value)))
                 ELSE insert_from(s, child, key, value))))

insert_internal(s0, key, value) ==
    With(s0, LAMBDA s :
    With(load_node(s, s.root_page_id), LAMBDA node :
        IF node = NoPage THEN [st |-> s, result |-> FALSE]
        ELSE IF is_full(node)
        THEN With(split_root(s), LAMBDA s1 :
             With(load_node(s1, s1.root_page_id), LAMBDA root :
                 IF root = NoPage THEN [st |-> s1, result |-> FALSE]
                 ELSE insert_from(s1, root, key, value)))
        ELSE insert_from(s, node, key, value)))

\* the first i in 0..num_keys with child_at(i) = child_id, else dflt
index_of_child(parent, child_id, dflt) ==
    With({i \in 0..num_keys(parent) : child_at(parent, i) = child_id},
         LAMBDA hits :
             IF hits = {} THEN dflt
             ELSE CHOOSE i \in hits : \A j \in hits : i <= j)

\* set_parent_id + save_node on children[from..] of a merged sibling
RECURSIVE adopt_children(_, _, _, _)
adopt_children(s0, sibling, i, parent_id) ==
    With(s0, LAMBDA s :
        IF i > num_keys(sibling) THEN s
        ELSE With(load_node(s, child_at(sibling, i)), LAMBDA child :
                 adopt_children(
                     IF child = NoPage THEN s
                     ELSE save_node(s, [child EXCEPT !.parent_id = parent_id]),
                     sibling, i + 1, parent_id)))

\* node->insert_key_child(num_keys, key_at(i), child_at(i+1)) for i = from..
RECURSIVE append_from_sibling(_, _, _)
append_from_sibling(node0, sibling, i) ==
    With(node0, LAMBDA node :
        IF i >= num_keys(sibling) THEN node
        ELSE append_from_sibling(
                 insert_key_child(node, num_keys(node), key_at(sibling, i),
                                  child_at(sibling, i + 1)),
                 sibling, i + 1))

\* the child a borrow moved under node: set_parent_id and save_node
reparent(s, child_id, parent_id) ==
    With(load_node(s, child_id), LAMBDA borrowed :
        IF borrowed = NoPage THEN s
        ELSE save_node(s, [borrowed EXCEPT !.parent_id = parent_id]))

\* the sibling of the child at index: load_node(child_at(index +- 1))
sibling_at(s, parent, index) ==
    IF index >= 0 /\ index <= num_keys(parent)
    THEN load_node(s, child_at(parent, index)) ELSE NoPage

RECURSIVE remove_key_from_internal(_, _, _)
RECURSIVE merge_or_redistribute_internal(_, _)

merge_or_redistribute_internal(s0, node0) ==
    With2(s0, node0, LAMBDA s, node :
    IF s.aborted \/ node.parent_id = kInvalidPageID THEN s
    ELSE
    With(load_node(s, node.parent_id), LAMBDA parent :
    IF parent = NoPage \/ ~is_internal(parent) THEN s
    ELSE
    With(index_of_child(parent, node.page_id, 0), LAMBDA node_index :
    With2(sibling_at(s, parent, node_index - 1),
          sibling_at(s, parent, node_index + 1),
          LAMBDA left_sibling, right_sibling :
    IF left_sibling # NoPage /\ is_internal(left_sibling)
       /\ num_keys(left_sibling) > min_keys(left_sibling)
    THEN \* borrow from the left sibling
         LET last_key == key_at(left_sibling, num_keys(left_sibling) - 1)
             last_child == child_at(left_sibling, num_keys(left_sibling))
         IN save_node(save_node(save_node(
                reparent(s, last_child, node.page_id),
                remove_child(left_sibling, num_keys(left_sibling))),
                insert_key_child(node, -1, key_at(parent, node_index - 1),
                                 last_child)),
                set_key_at(parent, node_index - 1, last_key))
    ELSE IF right_sibling # NoPage /\ is_internal(right_sibling)
    THEN IF num_keys(right_sibling) > min_keys(right_sibling)
         THEN \* borrow from the right sibling
              LET first_key == key_at(right_sibling, 0)
                  first_child == child_at(right_sibling, 0)
              IN save_node(save_node(save_node(
                     reparent(s, first_child, node.page_id),
                     remove_child(right_sibling, 0)),
                     insert_key_child(node, num_keys(node),
                                      key_at(parent, node_index), first_child)),
                     set_key_at(parent, node_index, first_key))
         ELSE IF num_keys(node) + num_keys(right_sibling) + 1 <= max_keys
         THEN \* merge the right sibling into node
              remove_key_from_internal(
                  delete_node(
                      save_node(
                          adopt_children(s, right_sibling, 0, node.page_id),
                          append_from_sibling(
                              insert_key_child(node, num_keys(node),
                                               key_at(parent, node_index),
                                               child_at(right_sibling, 0)),
                              right_sibling, 0)),
                      right_sibling.page_id),
                  parent, right_sibling.page_id)
         ELSE s
    ELSE s))))

\* the root is empty: promote the remaining child, delete the old root
promote_child(s, parent1) ==
    IF past_end(parent1, 0) /\ s.hardened THEN Abort(s)
    ELSE With(child_at(parent1, 0), LAMBDA promoted :
         With(IF promoted # kInvalidPageID
              THEN [s EXCEPT !.root_page_id = promoted, !.height = @ - 1]
              ELSE s, LAMBDA s1 :
         With(IF promoted # kInvalidPageID
              THEN load_node(s1, s1.root_page_id) ELSE NoPage, LAMBDA new_root :
             delete_node(
                 IF new_root # NoPage
                 THEN save_node(s1, [new_root EXCEPT
                                        !.parent_id = kInvalidPageID])
                 ELSE s1,
                 parent1.page_id))))

remove_key_from_internal(s0, parent0, child_id) ==
    With2(s0, parent0, LAMBDA s, parent :
    With(index_of_child(parent, child_id, num_keys(parent) + 1),
         LAMBDA child_index :
    IF s.aborted \/ child_index > num_keys(parent) THEN s
    ELSE
    With(remove_child(parent, child_index), LAMBDA parent1 :
    IF num_keys(parent1) = 0 /\ parent1.page_id = s.root_page_id
    THEN promote_child(s, parent1)
    ELSE IF num_keys(parent1) < min_keys(parent1)
            /\ parent1.page_id # s.root_page_id
    THEN merge_or_redistribute_internal(s, parent1)
    ELSE save_node(s, parent1))))

\* leaf->insert_entry for every entry of the right sibling, in order
RECURSIVE absorb_entries(_, _, _, _)
absorb_entries(leaf0, sibling, i, config) ==
    With(leaf0, LAMBDA leaf :
        IF i >= num_keys(sibling) THEN leaf
        ELSE absorb_entries(insert_entry(leaf, key_at(sibling, i),
                                         value_at(sibling, i), config).node,
                            sibling, i + 1, config))

\* the merged leaf's next leaf gets the merged leaf as its prev
relink_prev(s, next_id, prev_id) ==
    With(load_node(s, next_id), LAMBDA next_node :
        IF next_id # kInvalidPageID /\ next_node # NoPage /\ is_leaf(next_node)
        THEN save_node(s, [next_node EXCEPT !.prev_id = prev_id])
        ELSE s)

merge_or_redistribute_leaf(s0, leaf0) ==
    With2(s0, leaf0, LAMBDA s, leaf :
    IF s.aborted \/ leaf.parent_id = kInvalidPageID THEN s
    ELSE
    With(load_node(s, leaf.parent_id), LAMBDA parent :
    IF parent = NoPage \/ ~is_internal(parent) THEN s
    ELSE
    With(index_of_child(parent, leaf.page_id, 0), LAMBDA leaf_index :
    With2(sibling_at(s, parent, leaf_index - 1),
          sibling_at(s, parent, leaf_index + 1),
          LAMBDA left_sibling, right_sibling :
    IF left_sibling # NoPage /\ is_leaf(left_sibling)
       /\ num_keys(left_sibling) > min_keys(left_sibling)
    THEN \* borrow the left sibling's last entry
         LET last_key == key_at(left_sibling, num_keys(left_sibling) - 1)
             last_value == value_at(left_sibling, num_keys(left_sibling) - 1)
         IN With(insert_entry(leaf, last_key, last_value,
                             s.allow_duplicates).node, LAMBDA leaf1 :
                save_node(save_node(save_node(
                    s, remove_entry(left_sibling, last_key).node), leaf1),
                    set_key_at(parent, leaf_index - 1, key_at(leaf1, 0))))
    ELSE IF right_sibling # NoPage /\ is_leaf(right_sibling)
    THEN IF num_keys(right_sibling) > min_keys(right_sibling)
         THEN \* borrow the right sibling's first entry
              LET first_key == key_at(right_sibling, 0)
                  first_value == value_at(right_sibling, 0)
              IN With(remove_entry(right_sibling, first_key).node,
                      LAMBDA right1 :
                     save_node(save_node(save_node(
                         s, right1),
                         insert_entry(leaf, first_key, first_value,
                                      s.allow_duplicates).node),
                         set_key_at(parent, leaf_index, key_at(right1, 0))))
         ELSE IF num_keys(leaf) + num_keys(right_sibling) <= max_keys
         THEN \* merge the right sibling into leaf
              remove_key_from_internal(
                  delete_node(
                      save_node(
                          relink_prev(s, right_sibling.next_id, leaf.page_id),
                          [absorb_entries(leaf, right_sibling, 0,
                                         s.allow_duplicates) EXCEPT
                              !.next_id = right_sibling.next_id]),
                      right_sibling.page_id),
                  parent, right_sibling.page_id)
         ELSE s
    ELSE s))))

remove_internal(s0, key) ==
    With(s0, LAMBDA s :
    With(find_leaf_node(s, key), LAMBDA leaf :
    IF leaf = NoPage THEN [st |-> s, result |-> FALSE]
    ELSE
    With(remove_entry(leaf, key), LAMBDA r :
    IF ~r.ok THEN [st |-> s, result |-> FALSE]
    ELSE
    With(save_node(s, r.node), LAMBDA s1 :
    With(IF s1.aborted THEN s1 ELSE [s1 EXCEPT !.size = @ - 1], LAMBDA s2 :
        [st |-> IF is_underflow(r.node) /\ r.node.page_id # s.root_page_id
                THEN merge_or_redistribute_leaf(s2, r.node) ELSE s2,
         result |-> TRUE])))))

(* ========================= the BTree state machine ===================== *)
VARIABLES
    pages, disk, frame_dirty, free_pages, next_page_id,  \* storage
    root_page_id, height, size,                          \* BTree fields
    aborted,      \* the process died
    attached,     \* the pool is connected to the engine
    allow_duplicates,  \* BTreeConfig::allow_duplicates of the tree
    shadow,       \* key -> value of its last successful insert not yet removed, 0 if none
    last,         \* the last call: operation, key, whether the key was held, result
    pool,         \* a BufferPool shared by threads: frames, page table, locks
    thr,          \* the threads calling the BufferPool: where each one is
    tree,         \* tree_mutex_ of one tree and the threads calling the tree
    page_obj,     \* one Page object: its header fields and its bytes
    pool_room,    \* the frames of the engine's pool that no page of another user holds
    sfs           \* a SingleFileStorage: its fields and the file behind it

vars == <<pages, disk, frame_dirty, free_pages, next_page_id,
          root_page_id, height, size, aborted, attached, shadow, last,
          pool, thr, tree, page_obj, sfs, pool_room, allow_duplicates>>

\* a specification of one component leaves the others out
NotUsed == <<>>

\* the variables as the record one operation threads through its calls;
\* h says whether, in this call, an unchecked read past the end of a vector
\* is caught (the process aborts) or returns the stale memory
State(h) ==
    [pages |-> pages, disk |-> disk, frame_dirty |-> frame_dirty,
     free_pages |-> free_pages, next_page_id |-> next_page_id,
     root_page_id |-> root_page_id, height |-> height, size |-> size,
     aborted |-> aborted, hardened |-> h, attached |-> attached,
     pool_room |-> pool_room, allow_duplicates |-> allow_duplicates]

SetState(s) ==
    /\ pages' = s.pages
    /\ disk' = s.disk
    /\ frame_dirty' = s.frame_dirty
    /\ free_pages' = s.free_pages
    /\ next_page_id' = s.next_page_id
    /\ root_page_id' = s.root_page_id
    /\ height' = s.height
    /\ size' = s.size
    /\ aborted' = s.aborted
    /\ attached' = s.attached
    /\ UNCHANGED <<pool, thr, tree, page_obj, sfs, pool_room, allow_duplicates>>

\* a StorageEngine from StorageEngineFactory::create, opened, no page yet
EmptyStorage ==
    [pages |-> [p \in PageIds |-> NoPage], disk |-> [p \in PageIds |-> <<>>],
     frame_dirty |-> {}, free_pages |-> {}, next_page_id |-> 1,
     root_page_id |-> kInvalidPageID, height |-> 0, size |-> 0,
     aborted |-> FALSE, hardened |-> FALSE, attached |-> TRUE,
     pool_room |-> BufferPoolConfig_pool_size,
     allow_duplicates |-> FALSE]

\* BTree::BTree
BTreeNew ==
    LET s0 == EmptyStorage
        s1 == [create_node(s0, "Leaf") EXCEPT !.root_page_id = created(s0)]
        s2 == save_node(s1, BTreeNode(s1.root_page_id, "Leaf"))
    IN [s2 EXCEPT !.height = 1]

NoCall == [op |-> "none", key |-> 0, held |-> FALSE, result |-> 0]

InitBTree ==
    /\ pages = BTreeNew.pages
    /\ disk = BTreeNew.disk
    /\ frame_dirty = BTreeNew.frame_dirty
    /\ free_pages = BTreeNew.free_pages
    /\ next_page_id = BTreeNew.next_page_id
    /\ root_page_id = BTreeNew.root_page_id
    /\ height = BTreeNew.height
    /\ size = BTreeNew.size
    /\ aborted = FALSE
    /\ attached = TRUE
    /\ shadow = [k \in Keys |-> 0]
    /\ last = NoCall
    /\ pool = NotUsed /\ thr = NotUsed /\ tree = NotUsed
    /\ page_obj = NotUsed /\ sfs = NotUsed
    /\ pool_room = BufferPoolConfig_pool_size
    /\ allow_duplicates = FALSE

\* BTree::insert.  Values are opaque to the tree (copied, never compared):
\* a caller inserts 1 for a key it does not hold and any value for a key it
\* holds, which keeps every overwrite of a held key visible.
Insert ==
    /\ ~aborted
    /\ \E key \in Keys, value \in Vals, h \in BOOLEAN :
          /\ value = 1 \/ shadow[key] # 0
          /\ \E r \in {insert_internal(State(h), key, value)} :
                /\ r.st.next_page_id <= MaxPages + 1
                /\ SetState(r.st)
                /\ shadow' = IF r.result /\ ~r.st.aborted
                             THEN [shadow EXCEPT ![key] = value] ELSE shadow
                /\ last' = [op |-> "insert", key |-> key,
                            held |-> shadow[key] # 0,
                            result |-> IF r.result THEN 1 ELSE 0]

\* BTree::remove
Remove ==
    /\ ~aborted
    /\ \E key \in Keys, h \in BOOLEAN :
          \E r \in {remove_internal(State(h), key)} :
             /\ SetState(r.st)
             /\ shadow' = IF r.result /\ ~r.st.aborted
                          THEN [shadow EXCEPT ![key] = 0] ELSE shadow
             /\ last' = [op |-> "remove", key |-> key, held |-> shadow[key] # 0,
                         result |-> IF r.result THEN 1 ELSE 0]

\* BTree::find
Find ==
    /\ ~aborted
    /\ \E key \in Keys :
          /\ last' = [op |-> "find", key |-> key, held |-> shadow[key] # 0,
                      result |-> find_internal(State(FALSE), key)]
          /\ UNCHANGED <<pages, disk, frame_dirty, free_pages, next_page_id,
                         root_page_id, height, size, aborted, attached,
                         shadow, pool, thr, tree,
                         page_obj, sfs, pool_room, allow_duplicates>>

NextBTree == Insert \/ Remove \/ Find

SpecBTree == InitBTree /\ [][NextBTree]_vars

(* ============================ BTree: claims ============================ *)
\* the pages a descent from the root can load, by child pointers
RECURSIVE ReachableFrom(_, _, _)
ReachableFrom(s, page_id, fuel) ==
    With(load_node(s, page_id), LAMBDA node :
        IF node = NoPage \/ fuel = 0 THEN {}
        ELSE IF is_leaf(node) THEN {page_id}
        ELSE {page_id} \cup
             UNION {ReachableFrom(s, child_at(node, i), fuel - 1) :
                       i \in 0..num_keys(node)})

Reachable(s) == ReachableFrom(s, s.root_page_id, MaxPages)

Held == {k \in Keys : shadow[k] # 0}

\* C1: the BTree behaves as a map: no call kills the process, find(k)
\* returns the value of the last successful insert of k that no successful
\* remove followed (nothing otherwise), insert succeeds exactly on a key not
\* held and remove exactly on a key held, and size() counts the keys held.
C1_MapRefinement ==
    /\ ~aborted
    /\ \A k \in Keys : find_internal(State(FALSE), k) = shadow[k]
    /\ size = Cardinality(Held)
    /\ last.op = "insert" => (last.result = 1) = ~last.held
    /\ last.op = "remove" => (last.result = 1) = last.held

\* C4: after every call the backend holds, for each page reachable from the
\* root, the image the pool holds, so that a flush, a reset of the pool and
\* a re-read answer every find as before.
C4_WriteThrough ==
    ~aborted =>
       \A s \in {State(FALSE)} :
          /\ \A p \in Reachable(s) : read_page_from_disk(s, p) = pages[p]
          /\ \A k \in Keys :
                find_internal(reset(flush_all_pages(s)), k) = find_internal(s, k)

(* ========================= src/types.cpp: Value ======================== *)
\* A Value is its DataType tag and the little-endian bytes of its payload.
\* Every byte the model stores is below 128, so every number is
\* non-negative and compares as its bytes do.
NullValue == [type |-> DataType_Null, bytes |-> <<>>]

Int32Value(n) ==
    [type |-> DataType_Int32,
     bytes |-> <<n % 256, (n \div 256) % 256, (n \div 65536) % 256,
                 n \div 16777216>>]

\* sizeof of the payload of a fixed-size type, by tag
sizeof_payload(type) ==
    CASE type \in {1, 5, 11} -> 1
      [] type \in {2, 6} -> 2
      [] type \in {3, 7, 9} -> 4
      [] type \in {4, 8, 10, 14} -> 8
      [] OTHER -> 0

is_sized(type) ==
    type \in {DataType_String, DataType_Blob, DataType_Vector}

writeToBuffer32(n) ==
    <<n % 256, (n \div 256) % 256, (n \div 65536) % 256, n \div 16777216>>

serializedSize(v) ==
    IF is_sized(v.type) THEN 1 + 4 + Len(v.bytes) ELSE 1 + Len(v.bytes)

Value_serialize(v) ==
    IF is_sized(v.type)
    THEN <<v.type>>
            \o writeToBuffer32(IF v.type = DataType_Vector
                               THEN Len(v.bytes) \div 4 ELSE Len(v.bytes))
            \o v.bytes
    ELSE <<v.type>> \o v.bytes

\* the byte at an offset of a page's data area; past the bytes the model
\* keeps the page is as PageFactory zeroed it
byte_at(data, offset) == IF offset < DataLen THEN data[offset + 1] ELSE 0

read_bytes(data, offset, n) == [i \in 1..n |-> byte_at(data, offset + i - 1)]

readFromBuffer32(data, offset) ==
    byte_at(data, offset) + 256 * byte_at(data, offset + 1)
       + 65536 * byte_at(data, offset + 2)
       + 16777216 * byte_at(data, offset + 3)

\* Value::deserialize(buffer, offset): the value at the offset and the
\* offset behind it
Value_deserialize(data, offset) ==
    With(byte_at(data, offset), LAMBDA type :
        IF is_sized(type)
        THEN With(readFromBuffer32(data, offset + 1)
                     * (IF type = DataType_Vector THEN 4 ELSE 1), LAMBDA n :
                 [value |-> [type |-> type,
                             bytes |-> read_bytes(data, offset + 5, n)],
                  offset |-> offset + 5 + n])
        ELSE IF type = DataType_Json
        THEN [value |-> NullValue, offset |-> offset + 5]
        ELSE IF type = DataType_Null \/ type > DataType_Json
        THEN [value |-> NullValue, offset |-> offset + 1]
        ELSE [value |-> [type |-> type,
                         bytes |-> read_bytes(data, offset + 1,
                                              sizeof_payload(type))],
              offset |-> offset + 1 + sizeof_payload(type)])

\* the payloads of two values of one type: numbers by magnitude, strings
\* and blobs lexicographically
data_less(a, b) ==
    IF is_sized(a.type)
    THEN \E i \in 1..(Len(a.bytes) + 1) :
            /\ \A j \in 1..(i - 1) : j <= Len(b.bytes) /\ a.bytes[j] = b.bytes[j]
            /\ \/ i = Len(a.bytes) + 1 /\ Len(b.bytes) >= i
               \/ /\ i <= Len(a.bytes) /\ i <= Len(b.bytes)
                  /\ a.bytes[i] < b.bytes[i]
    ELSE \E i \in 1..Len(a.bytes) :
            /\ a.bytes[i] < b.bytes[i]
            /\ \A j \in (i + 1)..Len(a.bytes) : a.bytes[j] = b.bytes[j]

\* Value::operator<
Value_less(a, b) ==
    IF a.type = DataType_Null THEN b.type # DataType_Null
    ELSE IF b.type = DataType_Null THEN FALSE
    ELSE IF a.type = b.type THEN data_less(a, b)
    ELSE a.type < b.type

(* ================= src/index/btree_index.cpp: BTreeIndex =============== *)
\* the default comparator of BTreeIndexConfig
BTreeIndex_compare_keys(a, b) ==
    IF Value_less(a, b) THEN -1 ELSE IF Value_less(b, a) THEN 1 ELSE 0

get_max_keys_per_page(type) == MaxKeysPerPage

is_page_full(page) == page.key_count >= get_max_keys_per_page(page.node_type)

\* available space of an empty page
page_capacity == kPageSize - PageHeaderV2_kSize - BTreePageHeader_kSize

\* the bytes of a fetched page are written in place
put_page(s, page_id, img) ==
    IF page_id \in PageIds THEN [s EXCEPT !.pages[page_id] = img] ELSE s

write_bytes(data, offset, bytes) ==
    [i \in 1..DataLen |->
        IF i > offset /\ i <= offset + Len(bytes) THEN bytes[i - offset]
        ELSE data[i]]

\* std::memmove and std::memcpy inside one data area
memmove(data, dst, src, n) == write_bytes(data, dst, read_bytes(data, src, n))

\* a PageID* that is not a multiple of alignof(PageID) away from the page
misaligned(offset) == offset % 4 # 0

serialize_key_value(key, value) == Value_serialize(key) \o Value_serialize(value)

\* the key, the value and the number of bytes read
deserialize_key_value(data, offset) ==
    With(Value_deserialize(data, offset), LAMBDA k :
        With(Value_deserialize(data, k.offset), LAMBDA v :
            [key |-> k.value, value |-> v.value, size |-> v.offset - offset]))

get_key_value_size(key, value) == serializedSize(key) + serializedSize(value)

deserialize_key_for_internal(data, offset) == Value_deserialize(data, offset).value

\* the offset behind n entries read with deserialize_key_value
RECURSIVE skip_entries(_, _, _)
skip_entries(data, offset, n) ==
    IF n = 0 THEN offset
    ELSE With(offset + deserialize_key_value(data, offset).size, LAMBDA next :
             skip_entries(data, next, n - 1))

\* the offset behind n keys read with deserialize_key_for_internal
RECURSIVE skip_keys(_, _, _)
skip_keys(data, offset, n) ==
    IF n = 0 THEN offset
    ELSE With(offset + serializedSize(deserialize_key_for_internal(data, offset)),
              LAMBDA next : skip_keys(data, next, n - 1))

\* the bytes n entries take as read, the walk advancing by the size the
\* values read would serialize to
RECURSIVE remaining_size(_, _, _)
remaining_size(data, temp_offset, n) ==
    IF n = 0 THEN 0
    ELSE With(deserialize_key_value(data, temp_offset), LAMBDA kv :
             With(temp_offset + get_key_value_size(kv.key, kv.value), LAMBDA next :
                 kv.size + remaining_size(data, next, n - 1)))

RECURSIVE search_key_in_range(_, _, _, _)
search_key_in_range(data, key, left, right) ==
    IF left >= right THEN left
    ELSE With((left + right) \div 2, LAMBDA mid :
             With(deserialize_key_value(data, skip_entries(data, 0, mid)).key,
                  LAMBDA mid_key :
                 IF BTreeIndex_compare_keys(mid_key, key) < 0
                 THEN search_key_in_range(data, key, mid + 1, right)
                 ELSE search_key_in_range(data, key, left, mid)))

search_key_in_page(page, key) ==
    search_key_in_range(page.data, key, 0, page.key_count)

\* where the child pointers are taken to start: behind key_count entries
\* read as key-value pairs
child_pointers(page) == skip_entries(page.data, 0, page.key_count)

get_child_page_id(page, index) ==
    IF index > page.key_count THEN kInvalidPageID
    ELSE readFromBuffer32(page.data, child_pointers(page) + 4 * index)

set_child_page_id(page, index, child_id) ==
    IF index > page.key_count THEN page
    ELSE [page EXCEPT !.data = write_bytes(@, child_pointers(page) + 4 * index,
                                           writeToBuffer32(child_id))]

create_page(s0, type) ==
    With(s0, LAMBDA s :
        IF s.aborted THEN s
        ELSE new_page(s, [BlankPage EXCEPT
                             !.node_type = type,
                             !.level = IF type = BTreePageType_Leaf THEN 0 ELSE 1,
                             !.free_space = page_capacity]))

\* the page the descent ends in (kInvalidPageID when it fails); dead when
\* the call does not return: the child pointers lead round in a circle, or
\* the build traps on the misaligned PageID*
RECURSIVE find_leaf_from_page(_, _, _, _)
find_leaf_from_page(s, key, current_page, fuel) ==
    IF current_page = kInvalidPageID
    THEN [page_id |-> kInvalidPageID, dead |-> FALSE]
    ELSE IF fuel = 0 THEN [page_id |-> kInvalidPageID, dead |-> TRUE]
    ELSE With(fetch_page(s, current_page), LAMBDA page :
        IF page = NoPage THEN [page_id |-> kInvalidPageID, dead |-> FALSE]
        ELSE IF page.node_type = BTreePageType_Leaf
        THEN [page_id |-> current_page, dead |-> FALSE]
        ELSE With(search_key_in_page(page, key), LAMBDA child_index :
            IF s.hardened /\ child_index <= page.key_count
                          /\ misaligned(child_pointers(page))
            THEN [page_id |-> kInvalidPageID, dead |-> TRUE]
            ELSE With(get_child_page_id(page, child_index), LAMBDA child :
                     find_leaf_from_page(s, key, child, fuel - 1))))

find_leaf_page(s, key) == find_leaf_from_page(s, key, s.root_page_id, MaxPages + 2)

insert_into_leaf(s0, leaf_id, key, value) ==
    With2(s0, serialize_key_value(key, value), LAMBDA s, entry :
        With(fetch_page(s, leaf_id), LAMBDA page :
            IF page.free_space < Len(entry) THEN [st |-> s, result |-> FALSE]
            ELSE With(skip_entries(page.data, 0, page.key_count),
                      LAMBDA insert_offset :
                [st |-> flush_page(
                           put_page(s, leaf_id,
                              [page EXCEPT
                                  !.data = write_bytes(@, insert_offset, entry),
                                  !.key_count = (@ + 1) % 65536,
                                  !.free_space = @ - Len(entry)]),
                           leaf_id),
                 result |-> TRUE])))

BTreeIndex_split_root(s0) ==
    With(s0, LAMBDA s :
        IF fetch_page(s, s.root_page_id) = NoPage THEN s
        ELSE With2(create_page(s, BTreePageType_Internal), s.next_page_id,
                   LAMBDA s1, new_root_id :
            IF fetch_page(s1, new_root_id) = NoPage THEN s1
            ELSE With2(fetch_page(s1, s.root_page_id),
                       fetch_page(s1, new_root_id),
                       LAMBDA old_root, new_root :
                With(put_page(
                        put_page(s1, new_root_id,
                           set_child_page_id(
                              [new_root EXCEPT
                                  !.level = (old_root.level + 1) % 256],
                              0, s.root_page_id)),
                        s.root_page_id,
                        [old_root EXCEPT !.parent_page = new_root_id]),
                     LAMBDA s2 :
                    flush_page(
                       flush_page([s2 EXCEPT !.root_page_id = new_root_id,
                                             !.height = @ + 1],
                                  s.root_page_id),
                       new_root_id)))))

insert_into_internal(s0, page_id, key, child_page) ==
    With2(s0, Value_serialize(key), LAMBDA s, key_bytes :
      With(fetch_page(s, page_id), LAMBDA page :
        IF page.free_space < Len(key_bytes) + 4 THEN s
        ELSE With(search_key_in_page(page, key), LAMBDA insert_pos :
          With(skip_keys(page.data, 0, insert_pos), LAMBDA key_offset :
            With(write_bytes(
                    IF insert_pos < page.key_count
                    THEN memmove(page.data, key_offset + Len(key_bytes),
                                 key_offset,
                                 skip_keys(page.data, key_offset,
                                           page.key_count - insert_pos)
                                    - key_offset)
                    ELSE page.data,
                    key_offset, key_bytes),
                 LAMBDA keyed :
              With(skip_keys(keyed, 0, page.key_count), LAMBDA child_area_offset :
                IF s.hardened /\ misaligned(child_area_offset) THEN Abort(s)
                ELSE flush_page(
                        put_page(s, page_id,
                           [page EXCEPT
                               !.data =
                                  write_bytes(
                                     IF insert_pos + 1 <= page.key_count
                                     THEN memmove(keyed,
                                             child_area_offset + 4 * (insert_pos + 2),
                                             child_area_offset + 4 * (insert_pos + 1),
                                             4 * (page.key_count - insert_pos))
                                     ELSE keyed,
                                     child_area_offset + 4 * (insert_pos + 1),
                                     writeToBuffer32(child_page)),
                               !.key_count = (@ + 1) % 65536,
                               !.free_space = @ - (Len(key_bytes) + 4)]),
                        page_id)))))))

\* returns the state; the new page's id is s0.next_page_id, or the split
\* failed and new_page_id is kInvalidPageID
split_internal_page(s0, page_id) ==
    With(s0, LAMBDA s :
      With2(create_page(s, BTreePageType_Internal), s.next_page_id,
            LAMBDA s1, new_page_id :
        IF fetch_page(s1, new_page_id) = NoPage
        THEN [st |-> s1, new_page_id |-> kInvalidPageID]
        ELSE With2(fetch_page(s1, page_id), fetch_page(s1, new_page_id),
                   LAMBDA old, new :
          With(old.key_count \div 2, LAMBDA split_point :
            With(skip_keys(old.data, 0, split_point), LAMBDA move_offset :
              With(skip_keys(old.data, move_offset, old.key_count - split_point),
                   LAMBDA child_area_offset :
                With2(child_area_offset - move_offset,
                      old.key_count - split_point + 1,
                      LAMBDA remaining_key_size, children_to_move :
                  [st |->
                      flush_page(
                         flush_page(
                            put_page(
                               put_page(s1, new_page_id,
                                  [new EXCEPT
                                      !.data =
                                         write_bytes(
                                            write_bytes(@, 0,
                                               read_bytes(old.data, move_offset,
                                                          remaining_key_size)),
                                            remaining_key_size,
                                            read_bytes(old.data,
                                               child_area_offset + 4 * split_point,
                                               4 * children_to_move)),
                                      !.key_count = old.key_count - split_point,
                                      !.parent_page = old.parent_page,
                                      !.level = old.level,
                                      !.free_space = page_capacity
                                                        - remaining_key_size
                                                        - 4 * children_to_move]),
                               page_id,
                               [old EXCEPT
                                   !.key_count = split_point,
                                   !.free_space = page_capacity - move_offset
                                                     - 4 * (split_point + 1)]),
                            page_id),
                         new_page_id),
                   new_page_id |-> new_page_id])))))))

get_first_key_from_page(page) ==
    IF page.key_count = 0 THEN NullValue
    ELSE IF page.node_type = BTreePageType_Leaf
    THEN deserialize_key_value(page.data, 0).key
    ELSE deserialize_key_for_internal(page.data, 0)

update_parent_after_split(s0, parent_id, left_child, right_child, split_key) ==
    With(s0, LAMBDA s :
      With(fetch_page(s, parent_id), LAMBDA parent_page :
        IF parent_page = NoPage THEN s
        ELSE IF is_page_full(parent_page)
        THEN With(split_internal_page(s, parent_id), LAMBDA sp :
                 IF sp.new_page_id = kInvalidPageID THEN sp.st
                 ELSE IF BTreeIndex_compare_keys(split_key,
                            get_first_key_from_page(
                               fetch_page(sp.st, parent_id))) > 0
                 THEN IF fetch_page(sp.st, sp.new_page_id) = NoPage THEN sp.st
                      ELSE insert_into_internal(sp.st, sp.new_page_id,
                                                split_key, right_child)
                 ELSE insert_into_internal(sp.st, parent_id,
                                           split_key, right_child))
        ELSE insert_into_internal(s, parent_id, split_key, right_child)))

\* the next leaf's back link, set when the new leaf has a successor
link_next_page(s, next_id, new_page_id) ==
    IF next_id = kInvalidPageID \/ fetch_page(s, next_id) = NoPage THEN s
    ELSE flush_page(put_page(s, next_id,
                       [fetch_page(s, next_id) EXCEPT !.prev_page = new_page_id]),
                    next_id)

\* returns the state and the new page's id (kInvalidPageID: the split failed)
split_leaf_page(s0, leaf_id) ==
    With(s0, LAMBDA s :
      With2(create_page(s, BTreePageType_Leaf), s.next_page_id,
            LAMBDA s1, new_page_id :
        IF fetch_page(s1, new_page_id) = NoPage
        THEN [st |-> s1, new_page_id |-> kInvalidPageID]
        ELSE With2(fetch_page(s1, leaf_id), fetch_page(s1, new_page_id),
                   LAMBDA old, new :
          With(old.key_count \div 2, LAMBDA split_point :
            With(skip_entries(old.data, 0, split_point), LAMBDA move_offset :
              With(remaining_size(old.data, move_offset,
                                  old.key_count - split_point),
                   LAMBDA remaining :
                With(flush_page(
                        flush_page(
                           link_next_page(
                              put_page(
                                 put_page(s1, new_page_id,
                                    [new EXCEPT
                                        !.data = write_bytes(@, 0,
                                                    read_bytes(old.data,
                                                       move_offset, remaining)),
                                        !.key_count = old.key_count - split_point,
                                        !.parent_page = old.parent_page,
                                        !.next_page = old.next_page,
                                        !.prev_page = leaf_id,
                                        !.free_space = page_capacity - remaining]),
                                 leaf_id,
                                 [old EXCEPT
                                     !.key_count = split_point,
                                     !.next_page = new_page_id,
                                     !.free_space = page_capacity - move_offset]),
                              old.next_page, new_page_id),
                           leaf_id),
                        new_page_id),
                     LAMBDA s2 :
                  With(fetch_page(s2, leaf_id).parent_page, LAMBDA parent_id :
                    [st |-> IF parent_id = kInvalidPageID
                            THEN BTreeIndex_split_root(s2)
                            ELSE update_parent_after_split(s2, parent_id, leaf_id,
                                    new_page_id,
                                    deserialize_key_value(
                                       fetch_page(s2, new_page_id).data, 0).key),
                     new_page_id |-> new_page_id]))))))))

\* the key of the last entry of a leaf
last_key(page) ==
    deserialize_key_value(page.data,
                          skip_entries(page.data, 0, page.key_count - 1)).key

count_insert(r) ==
    [st |-> IF r.result THEN [r.st EXCEPT !.size = @ + 1] ELSE r.st,
     result |-> r.result]

BTreeIndex_insert(s0, key, value) ==
    With(s0, LAMBDA s :
      With(find_leaf_page(s, key), LAMBDA leaf :
        IF leaf.dead THEN [st |-> Abort(s), result |-> FALSE]
        ELSE IF leaf.page_id = kInvalidPageID
                \/ fetch_page(s, leaf.page_id) = NoPage
        THEN [st |-> s, result |-> FALSE]
        ELSE IF is_page_full(fetch_page(s, leaf.page_id))
        THEN With(split_leaf_page(s, leaf.page_id), LAMBDA sp :
               IF sp.st.aborted \/ sp.new_page_id = kInvalidPageID
               THEN [st |-> sp.st, result |-> FALSE]
               ELSE With(fetch_page(sp.st, leaf.page_id), LAMBDA old :
                 IF old.key_count > 0
                    /\ BTreeIndex_compare_keys(key, last_key(old)) > 0
                 THEN IF fetch_page(sp.st, sp.new_page_id) = NoPage
                      THEN [st |-> sp.st, result |-> FALSE]
                      ELSE count_insert(insert_into_leaf(sp.st, sp.new_page_id,
                                                         key, value))
                 ELSE count_insert(insert_into_leaf(sp.st, leaf.page_id,
                                                    key, value))))
        ELSE count_insert(insert_into_leaf(s, leaf.page_id, key, value))))

\* the first entry from index i on whose key compares equal: its index,
\* offset and size, or found = FALSE
RECURSIVE scan_for_key(_, _, _, _)
scan_for_key(page, key, i, offset) ==
    IF i >= page.key_count THEN [found |-> FALSE]
    ELSE With(deserialize_key_value(page.data, offset), LAMBDA current :
        IF BTreeIndex_compare_keys(current.key, key) = 0
        THEN [found |-> TRUE, i |-> i, offset |-> offset,
              entry_size |-> current.size]
        ELSE With(offset + current.size, LAMBDA next :
                 scan_for_key(page, key, i + 1, next)))

BTreeIndex_remove(s0, key) ==
    With(s0, LAMBDA s :
      With(find_leaf_page(s, key), LAMBDA leaf :
        IF leaf.dead THEN [st |-> Abort(s), result |-> FALSE]
        ELSE IF leaf.page_id = kInvalidPageID
                \/ fetch_page(s, leaf.page_id) = NoPage
        THEN [st |-> s, result |-> FALSE]
        ELSE With(fetch_page(s, leaf.page_id), LAMBDA page :
          With(scan_for_key(page, key, 0, 0), LAMBDA hit :
            IF ~hit.found THEN [st |-> s, result |-> FALSE]
            ELSE [st |->
                    [flush_page(
                        put_page(s, leaf.page_id,
                           [page EXCEPT
                               !.data = memmove(@, hit.offset,
                                           hit.offset + hit.entry_size,
                                           remaining_size(page.data,
                                              hit.offset + hit.entry_size,
                                              page.key_count - hit.i - 1)),
                               !.key_count = @ - 1,
                               !.free_space = @ + hit.entry_size]),
                        leaf.page_id)
                     EXCEPT !.size = @ - 1],
                  result |-> TRUE]))))

\* the entry find's inner loop ends on: it steps by the size of the entry
\* it read last, which before the first read is the size of two Nulls
RECURSIVE mid_entry(_, _, _, _, _)
mid_entry(data, mid, i, offset, kv) ==
    IF i = mid THEN deserialize_key_value(data, offset)
    ELSE With(offset + get_key_value_size(kv.key, kv.value), LAMBDA next :
             With(deserialize_key_value(data, next), LAMBDA read :
                 mid_entry(data, mid, i + 1, next, read)))

RECURSIVE find_in_range(_, _, _, _)
find_in_range(data, key, left, right) ==
    IF left >= right THEN [has_value |-> FALSE, value |-> NullValue]
    ELSE With((left + right) \div 2, LAMBDA mid :
        With(mid_entry(data, mid, 0, 0, [key |-> NullValue, value |-> NullValue]),
             LAMBDA m :
            With(BTreeIndex_compare_keys(m.key, key), LAMBDA cmp :
                IF cmp < 0 THEN find_in_range(data, key, mid + 1, right)
                ELSE IF cmp > 0 THEN find_in_range(data, key, left, mid)
                ELSE [has_value |-> TRUE, value |-> m.value])))

nullopt == [has_value |-> FALSE, value |-> NullValue, dead |-> FALSE]

BTreeIndex_find(s, key) ==
    With(find_leaf_page(s, key), LAMBDA leaf :
        IF leaf.dead THEN [nullopt EXCEPT !.dead = TRUE]
        ELSE IF leaf.page_id = kInvalidPageID
                \/ fetch_page(s, leaf.page_id) = NoPage
        THEN nullopt
        ELSE With(fetch_page(s, leaf.page_id), LAMBDA page :
            With(find_in_range(page.data, key, 0, page.key_count), LAMBDA r :
                [has_value |-> r.has_value, value |-> r.value, dead |-> FALSE])))

\* BTreeIndex::begin: the leftmost leaf, kInvalidPageID for end()
RECURSIVE leftmost_from(_, _, _)
leftmost_from(s, current_page, fuel) ==
    IF fuel = 0 THEN [page_id |-> kInvalidPageID, dead |-> TRUE]
    ELSE With(fetch_page(s, current_page), LAMBDA page :
        IF page = NoPage THEN [page_id |-> kInvalidPageID, dead |-> FALSE]
        ELSE IF page.node_type = BTreePageType_Leaf
        THEN [page_id |-> current_page, dead |-> FALSE]
        ELSE IF s.hardened /\ misaligned(child_pointers(page))
        THEN [page_id |-> kInvalidPageID, dead |-> TRUE]
        ELSE With(get_child_page_id(page, 0), LAMBDA child :
            IF child = kInvalidPageID
            THEN [page_id |-> kInvalidPageID, dead |-> FALSE]
            ELSE leftmost_from(s, child, fuel - 1)))

BTreeIndex_begin(s) == leftmost_from(s, s.root_page_id, MaxPages + 2)

\* Iterator::operator*
Iterator_entry(s, current_page, current_index) ==
    With(fetch_page(s, current_page), LAMBDA page :
        IF page = NoPage \/ current_index >= page.key_count
        THEN [key |-> NullValue, value |-> NullValue]
        ELSE With(deserialize_key_value(page.data,
                     skip_entries(page.data, 0, current_index)), LAMBDA kv :
                 [key |-> kv.key, value |-> kv.value]))

\* Iterator::advance with load_next_page: the next position, page
\* kInvalidPageID at the end
Iterator_advance(s, current_page, current_index) ==
    With(fetch_page(s, current_page), LAMBDA page :
        IF page = NoPage THEN [page_id |-> kInvalidPageID, index |-> current_index + 1]
        ELSE IF current_index + 1 >= page.key_count
        THEN [page_id |-> page.next_page, index |-> 0]
        ELSE [page_id |-> current_page, index |-> current_index + 1])

\* for (it = begin(); it != end(); ++it): the entries *it yields; dead
\* when the loop does not end
RECURSIVE iterate_from(_, _, _, _)
iterate_from(s, current_page, current_index, fuel) ==
    IF current_page = kInvalidPageID THEN [entries |-> <<>>, dead |-> FALSE]
    ELSE IF fuel = 0 THEN [entries |-> <<>>, dead |-> TRUE]
    ELSE With2(Iterator_entry(s, current_page, current_index),
               Iterator_advance(s, current_page, current_index),
               LAMBDA entry, next :
            With(iterate_from(s, next.page_id, next.index, fuel - 1), LAMBDA rest :
                [entries |-> <<entry>> \o rest.entries, dead |-> rest.dead]))

iterate(s) ==
    With(BTreeIndex_begin(s), LAMBDA first :
        IF first.dead THEN [entries |-> <<>>, dead |-> TRUE]
        ELSE iterate_from(s, first.page_id, 0, MaxPages * (MaxKeysPerPage + 2)))

\* the height the second constructor finds along the leftmost path
RECURSIVE leftmost_height(_, _, _, _)
leftmost_height(s, current_page, height_, fuel) ==
    IF current_page = kInvalidPageID THEN height_
    ELSE IF fuel = 0 THEN -1
    ELSE With(fetch_page(s, current_page), LAMBDA page :
        IF page = NoPage \/ page.node_type = BTreePageType_Leaf THEN height_
        ELSE IF s.hardened /\ misaligned(child_pointers(page)) THEN -1
        ELSE With(get_child_page_id(page, 0), LAMBDA child :
                 leftmost_height(s, child, height_ + 1, fuel - 1)))

\* BTreeIndex::BTreeIndex(storage, root_page_id, config)
BTreeIndex_open(s0, root) ==
    With(s0, LAMBDA s :
        IF fetch_page(s, root) = NoPage THEN Abort(s)
        ELSE With2(leftmost_height(s, root, 1, MaxPages + 2),
                   iterate([s EXCEPT !.root_page_id = root]),
                   LAMBDA h, it :
                IF h = -1 \/ it.dead THEN Abort(s)
                ELSE [s EXCEPT !.root_page_id = root, !.height = h,
                               !.size = Len(it.entries)]))

\* BTreeIndex::BTreeIndex(storage, config) on an engine just opened
BTreeIndexNew(att) ==
    With([EmptyStorage EXCEPT !.attached = att], LAMBDA s0 :
        [create_page(s0, BTreePageType_Leaf) EXCEPT
             !.root_page_id = s0.next_page_id, !.height = 1])

(* ======================= the BTreeIndex state machine ================== *)
\* what find answers for each key the model uses
IndexKeys == 1..MaxIndexKey

Finds(s) == [k \in IndexKeys |-> BTreeIndex_find(s, Int32Value(k))]

\* the last call: operation, the key of an insert, whether and with which
\* value the key was held, the result of an insert or remove, whether every call so far was an insert of a key
\* never inserted before or a find, and what the tree said before the
\* call: the inserts called so far, size() (kept for an insert of a held key and for a reopening),
\* height() and every find (kept for a reopening)
NoIndexCall ==
    [op |-> "none", key |-> 0, held |-> FALSE, was |-> 0, result |-> 0,
     unique |-> TRUE, inserts |-> 0, size_before |-> 0, height_before |-> 0,
     finds_before |-> <<>>]

Called(op, key, result, unique) ==
    [op |-> op, key |-> key, held |-> key # 0 /\ shadow[key] # 0,
     was |-> IF key = 0 THEN 0 ELSE shadow[key], result |-> result,
     unique |-> last.unique /\ unique,
     inserts |-> IF op = "insert" THEN last.inserts + 1 ELSE last.inserts,
     size_before |-> IF op = "reopen" \/ (op = "insert" /\ shadow[key] # 0)
                     THEN size ELSE 0,
     height_before |-> IF op = "reopen" THEN height ELSE 0,
     finds_before |-> IF op = "reopen" THEN Finds(State(FALSE)) ELSE <<>>]

\* a tree on an engine from StorageEngineFactory::create (attached) or on
\* one built by the StorageEngine constructor alone
InitIndex ==
    /\ attached \in BOOLEAN
    /\ \E s \in {BTreeIndexNew(attached)} :
          /\ pages = s.pages
          /\ disk = s.disk
          /\ frame_dirty = s.frame_dirty
          /\ free_pages = s.free_pages
          /\ next_page_id = s.next_page_id
          /\ root_page_id = s.root_page_id
          /\ height = s.height
          /\ size = s.size
    /\ aborted = FALSE
    /\ shadow = [k \in Keys |-> 0]
    /\ last = NoIndexCall
    /\ pool = NotUsed /\ thr = NotUsed /\ tree = NotUsed
    /\ page_obj = NotUsed /\ sfs = NotUsed
    /\ pool_room = BufferPoolConfig_pool_size
    /\ allow_duplicates = FALSE

\* BTreeIndex::insert of Int32 keys and values.  Values are opaque to the
\* tree: a key not held is given 1, a key held is given 2.
IndexInsert ==
    /\ ~aborted
    /\ last.inserts < MaxInserts
    /\ \E key \in IndexKeys, h \in BOOLEAN :
          \E value \in {IF shadow[key] = 0 THEN 1 ELSE 2} :
             \E r \in {BTreeIndex_insert(State(h), Int32Value(key),
                                         Int32Value(value))} :
                /\ r.st.next_page_id <= MaxPages + 1
                /\ SetState(r.st)
                /\ shadow' = IF r.result THEN [shadow EXCEPT ![key] = value]
                             ELSE shadow
                /\ last' = Called("insert", key, IF r.result THEN 1 ELSE 0,
                                  shadow[key] = 0 /\ ~r.st.aborted)

\* BTreeIndex::remove
IndexRemove ==
    /\ ~aborted
    /\ \E key \in IndexKeys, h \in BOOLEAN :
          \E r \in {BTreeIndex_remove(State(h), Int32Value(key))} :
             /\ SetState(r.st)
             /\ shadow' = IF r.result THEN [shadow EXCEPT ![key] = 0] ELSE shadow
             /\ last' = Called("remove", 0, IF r.result THEN 1 ELSE 0, FALSE)

\* BTreeIndex::find
IndexFind ==
    /\ ~aborted
    /\ \E key \in IndexKeys, h \in BOOLEAN :
          \E r \in {BTreeIndex_find(State(h), Int32Value(key))} :
             /\ aborted' = r.dead
             /\ last' = Called("find", 0, 0, ~r.dead)
             /\ UNCHANGED <<pages, disk, frame_dirty, free_pages, next_page_id,
                            root_page_id, height, size, shadow, attached,
                            pool, thr, tree, page_obj, sfs,
                            pool_room, allow_duplicates>>

\* the tree is dropped, every page flushed, the pool reset and a tree
\* constructed on the root page id saved before
IndexReopen ==
    /\ ~aborted
    /\ last.op # "reopen"
    /\ \E h \in BOOLEAN :
          \E s \in {BTreeIndex_open(reset(flush_all_pages(State(h))),
                                    root_page_id)} :
             /\ SetState(s)
             /\ last' = Called("reopen", 0, 0, FALSE)
             /\ UNCHANGED shadow

NextIndex == IndexInsert \/ IndexRemove \/ IndexFind \/ IndexReopen

SpecIndex == InitIndex /\ [][NextIndex]_vars

(* =========================== BTreeIndex: claims ======================== *)
\* the keys a full iteration yields, in the order it yields them
IteratedKeys == [i \in DOMAIN iterate(State(FALSE)).entries |->
                    iterate(State(FALSE)).entries[i].key]

\* C2: after inserts of N >= 1 distinct keys and nothing else but finds,
\* every insert returned true, size() is N, find returns the value
\* inserted for each of the keys, and a full iteration yields exactly N
\* entries.
C2_UniqueInserts ==
    last.unique /\ Held # {} =>
       /\ last.op = "insert" => last.result = 1
       /\ size = Cardinality(Held)
       /\ \A k \in Held :
             BTreeIndex_find(State(FALSE), Int32Value(k))
                = [has_value |-> TRUE, value |-> Int32Value(shadow[k]),
                   dead |-> FALSE]
       /\ \A it \in {iterate(State(FALSE))} :
             ~it.dead /\ Len(it.entries) = Cardinality(Held)

\* C3: a full iteration of a BTreeIndex yields its keys in non-decreasing
\* order under the comparator.
C3_IndexIterationSorted ==
    \A keys \in {IteratedKeys} :
       \A i \in 1..(Len(keys) - 1) :
          BTreeIndex_compare_keys(keys[i], keys[i + 1]) <= 0

\* C5: a BTreeIndex constructed on the saved root page id, after every
\* page was flushed and the pool reset, reports the size() and height()
\* the tree had and answers every find as the tree did.
C5_ReopenKeepsTree ==
    attached /\ last.op = "reopen" =>
       /\ ~aborted
       /\ size = last.size_before
       /\ height = last.height_before
       /\ Finds(State(FALSE)) = last.finds_before

\* C10: an insert of a key the tree holds returns false, leaves size() as
\* it was, and find still returns the value the key was first given.
C10_IndexDuplicateRejected ==
    last.op = "insert" /\ last.held =>
       /\ last.result = 0
       /\ size = last.size_before
       /\ BTreeIndex_find(State(FALSE), Int32Value(last.key))
             = [has_value |-> TRUE, value |-> Int32Value(last.was),
                dead |-> FALSE]

(* ===================== BufferPool under concurrency ==================== *)
\* Threads call fetch_page, new_page, unpin_page, delete_page and flush_page
\* of one BufferPool.  A step of a thread is what it does between two lock
\* acquisitions: a thread whose next acquisition cannot be granted waits.
PoolSize == 2          \* frames of the pool
PoolThreads == 2       \* threads calling the pool
MaxPoolPages == 3      \* page ids new_page hands out
MaxPoolCalls == 5      \* calls in one run

\* UINT32_MAX, written as the same 32 bits read as a signed number
kInvalidFrameID == -1

FrameIds == 0..(PoolSize - 1)
Threads == 1..PoolThreads
PoolPageIds == 1..MaxPoolPages
NoThread == 0
\* the page has no file in the data directory
NoFile == -1

\* std::shared_mutex: the thread holding it exclusively and those sharing it
Unlocked == [writer |-> NoThread, readers |-> {}]

can_lock_shared(m) == m.writer = NoThread

can_lock(m) == m.writer = NoThread /\ m.readers = {}

lock_shared(m, t) == [m EXCEPT !.readers = @ \cup {t}]

lock_unique(m, t) == [m EXCEPT !.writer = t]

unlock(m, t) ==
    [writer |-> IF m.writer = t THEN NoThread ELSE m.writer,
     readers |-> m.readers \ {t}]

holds(m, t) == m.writer = t \/ t \in m.readers

\* struct Frame; ver stands for the bytes of the page: the number of
\* modifications made to it since new_page created it.  pin_count is a
\* uint32_t kept as the signed number of the same 32 bits, so that the
\* fetch_sub of unpin() at 0 gives -1 (UINT32_MAX)
EmptyFrame ==
    [page |-> kInvalidPageID, is_dirty |-> FALSE, pin_count |-> 0, ver |-> 0,
     mutex |-> Unlocked]

\* a frame that reports itself unpinned whatever its count
Frame_never_pinned(frame) == FALSE

\* Frame::is_pinned: pin_count > 0, unsigned
Frame_is_pinned(frame) == frame.pin_count # 0

\* struct BufferPoolStats, the counters of fetch_page
BufferPoolStatsNew == [page_requests |-> 0, page_hits |-> 0, page_misses |-> 0]

\* a counter that is read and written back without the addition
lost_add(stats, counter) == stats

\* std::atomic<uint64_t>::fetch_add(1) on a counter of stats_: one step
stats_fetch_add(stats, counter) == [stats EXCEPT ![counter] = @ + 1]

\* BufferPool::BufferPool
BufferPoolNew ==
    [frames |-> [f \in FrameIds |-> EmptyFrame],
     page_table |-> [p \in PoolPageIds |-> kInvalidFrameID],
     free_frames |-> [i \in 1..PoolSize |-> i - 1],
     next_page_id |-> 1,
     disk |-> [p \in PoolPageIds |-> NoFile],
     table_mutex |-> Unlocked,
     pages_evicted |-> 0,
     stats |-> BufferPoolStatsNew,
     calls |-> 0]

\* a thread outside every call
Idle ==
    [pc |-> "idle", op |-> "none", page_id |-> kInvalidPageID,
     is_dirty |-> FALSE, frame_id |-> kInvalidFrameID, page |-> 0,
     ret |-> "none"]

PoolOps == {"fetch_page", "new_page", "unpin_page", "delete_page", "flush_page"}

\* the first statement of each operation that can wait
first_step(op) ==
    CASE op = "fetch_page" -> "fetch_lookup"
      [] op = "new_page" -> "find_free_frame"
      [] op = "unpin_page" -> "unpin_lookup"
      [] op = "delete_page" -> "delete_lookup"
      [] op = "flush_page" -> "flush_lookup"

\* the call of t returns ret
Return(t, ret) ==
    [thr EXCEPT ![t] = [Idle EXCEPT !.op = thr[t].op, !.ret = ret]]

Goto(t, pc) == [thr EXCEPT ![t].pc = pc]

\* a write that reports success and writes nothing
lose_page_write(P, f, att) == P

\* BufferPool::write_page_to_storage when the write succeeds: the engine
\* writes the page's bytes to its file; a pool without engine writes nothing
BufferPool_write_page_to_storage(P, f, att) ==
    IF att THEN [P EXCEPT !.disk[P.frames[f].page] = P.frames[f].ver] ELSE P

\* what write_page_to_storage can return: StorageEngine::write_page_to_disk
\* fails when the file cannot be written; without engine it returns true
write_results(att) == IF att THEN BOOLEAN ELSE {TRUE}

\* a policy that never finds a victim
no_victim(P, t) == {kInvalidFrameID}

\* EvictionPolicy::select_victim (LRU and Clock), the frames it can return:
\* one that holds a page and is not pinned, kInvalidFrameID if it sees none.
\* It reads the frames without their locks: a frame another thread holds
\* locked for writing is read either way.
select_victim(P, t) ==
    LET seen == {f \in FrameIds : P.frames[f].page # kInvalidPageID
                                    /\ ~Frame_is_pinned(P.frames[f])}
        racing == {f \in FrameIds : P.frames[f].mutex.writer \notin {NoThread, t}}
    IN (seen \cup racing)
       \cup (IF seen = {} \/ racing # {} THEN {kInvalidFrameID} ELSE {})

\* the variables of the trees' specifications, which the pool's leaves alone
treeVars == <<pages, disk, frame_dirty, free_pages, next_page_id,
              root_page_id, height, size, aborted, shadow, last, tree,
              page_obj, sfs, pool_room, allow_duplicates>>

\* no tree is built: the variables of the trees' data stay as an engine
\* without pages has them
NoTreeData ==
    /\ pages = EmptyStorage.pages
    /\ disk = EmptyStorage.disk
    /\ frame_dirty = {}
    /\ free_pages = {}
    /\ next_page_id = 1
    /\ root_page_id = kInvalidPageID
    /\ height = 0
    /\ size = 0
    /\ aborted = FALSE
    /\ shadow = [k \in Keys |-> 0]
    /\ last = NoCall
    /\ page_obj = NotUsed
    /\ sfs = NotUsed
    /\ pool_room = BufferPoolConfig_pool_size
    /\ allow_duplicates = FALSE

\* a BufferPool of PoolSize frames, with a storage engine (attached) or
\* alone, and no call made yet
InitPool ==
    /\ pool = BufferPoolNew
    /\ thr = [t \in Threads |-> Idle]
    /\ attached \in BOOLEAN
    /\ NoTreeData
    /\ tree = NotUsed

\* a thread calls an operation; new_page takes its page id at once
\* (next_page_id_.fetch_add), the others name a page id; fetch_page counts
\* the request before it takes any lock
PoolCall(t) ==
    /\ thr[t].pc = "idle"
    /\ pool.calls < MaxPoolCalls
    /\ \E op \in PoolOps, page_id \in PoolPageIds, is_dirty \in BOOLEAN :
          /\ op = "new_page" => page_id = pool.next_page_id
          /\ op # "unpin_page" => ~is_dirty
          /\ thr' = [thr EXCEPT ![t] = [Idle EXCEPT !.pc = first_step(op),
                                                    !.op = op,
                                                    !.page_id = page_id,
                                                    !.is_dirty = is_dirty]]
          /\ pool' = [pool EXCEPT !.calls = @ + 1,
                                  !.next_page_id = IF op = "new_page"
                                                   THEN @ + 1 ELSE @,
                                  !.stats = IF op = "fetch_page"
                                            THEN stats_fetch_add(@, "page_requests")
                                            ELSE @]
    /\ UNCHANGED <<treeVars, attached>>

\* fetch_page: shared lock of the table, look the page up; a page that is
\* not in the table is a miss
FetchLookup(t) ==
    /\ thr[t].pc = "fetch_lookup"
    /\ can_lock_shared(pool.table_mutex)
    /\ IF pool.page_table[thr[t].page_id] # kInvalidFrameID
       THEN /\ pool' = [pool EXCEPT !.table_mutex = lock_shared(@, t)]
            /\ thr' = [thr EXCEPT ![t].pc = "fetch_frame",
                                  ![t].frame_id = pool.page_table[thr[t].page_id]]
       ELSE /\ thr' = Goto(t, "read_page")
            /\ pool' = [pool EXCEPT !.stats = stats_fetch_add(@, "page_misses")]
    /\ UNCHANGED <<treeVars, attached>>

\* fetch_page: shared lock of the frame found; a hit pins it and is counted,
\* a frame that holds another page by now is a miss
FetchFrame(t) ==
    /\ thr[t].pc = "fetch_frame"
    /\ can_lock_shared(pool.frames[thr[t].frame_id].mutex)
    /\ IF pool.frames[thr[t].frame_id].page = thr[t].page_id
       THEN /\ pool' = [pool EXCEPT !.frames[thr[t].frame_id].pin_count = @ + 1,
                                    !.table_mutex = unlock(@, t),
                                    !.stats = stats_fetch_add(@, "page_hits")]
            /\ thr' = Return(t, "page")
       ELSE /\ pool' = [pool EXCEPT !.table_mutex = unlock(@, t),
                                    !.stats = stats_fetch_add(@, "page_misses")]
            /\ thr' = Goto(t, "read_page")
    /\ UNCHANGED <<treeVars, attached>>

\* fetch_page, a miss: read_page_from_storage.  The engine reads the page's
\* file, if there is one; a pool without engine makes up a blank page.
ReadPage(t) ==
    /\ thr[t].pc = "read_page"
    /\ IF attached /\ pool.disk[thr[t].page_id] = NoFile
       THEN thr' = Return(t, "null")
       ELSE thr' = [thr EXCEPT ![t].pc = "find_free_frame",
                               ![t].page = IF attached
                                           THEN pool.disk[thr[t].page_id] ELSE 0]
    /\ UNCHANGED <<pool, treeVars, attached>>

\* find_free_frame: the last frame of the free list, if any
FindFreeFrame(t) ==
    /\ thr[t].pc = "find_free_frame"
    /\ IF pool.free_frames # <<>>
       THEN /\ thr' = [thr EXCEPT ![t].pc = "install_lock",
                                  ![t].frame_id = pool.free_frames[Len(pool.free_frames)]]
            /\ pool' = [pool EXCEPT !.free_frames = SubSeq(@, 1, Len(@) - 1)]
       ELSE /\ thr' = Goto(t, "select_victim")
            /\ UNCHANGED pool
    /\ UNCHANGED <<treeVars, attached>>

\* evict_frame: the policy names a victim
SelectVictim(t) ==
    /\ thr[t].pc = "select_victim"
    /\ \E victim \in select_victim(pool, t) :
          IF victim = kInvalidFrameID
          THEN thr' = Return(t, "null")
          ELSE thr' = [thr EXCEPT ![t].pc = "evict_lock", ![t].frame_id = victim]
    /\ UNCHANGED <<pool, treeVars, attached>>

\* evict_frame: unique lock of the victim; it gives up on a frame that is
\* empty or pinned by now
EvictLock(t) ==
    /\ thr[t].pc = "evict_lock"
    /\ can_lock(pool.frames[thr[t].frame_id].mutex)
    /\ IF pool.frames[thr[t].frame_id].page = kInvalidPageID
          \/ Frame_is_pinned(pool.frames[thr[t].frame_id])
       THEN /\ thr' = Return(t, "null")
            /\ UNCHANGED pool
       ELSE /\ pool' = [pool EXCEPT !.frames[thr[t].frame_id].mutex = lock_unique(@, t)]
            /\ thr' = Goto(t, IF pool.frames[thr[t].frame_id].is_dirty
                              THEN "evict_write" ELSE "evict_erase")
    /\ UNCHANGED <<treeVars, attached>>

\* evict_frame: the dirty victim is written; a failed write ends the
\* eviction with kInvalidFrameID
EvictWrite(t) ==
    /\ thr[t].pc = "evict_write"
    /\ \E ok \in write_results(attached) :
          IF ok
          THEN /\ pool' = BufferPool_write_page_to_storage(pool, thr[t].frame_id, attached)
               /\ thr' = Goto(t, "evict_erase")
          ELSE /\ pool' = [pool EXCEPT !.frames[thr[t].frame_id].mutex = unlock(@, t)]
               /\ thr' = Return(t, "null")
    /\ UNCHANGED <<treeVars, attached>>

\* evict_frame: unique lock of the table, the page's entry erased, the frame
\* cleared and unlocked, stats_.pages_evicted counted
EvictErase(t) ==
    /\ thr[t].pc = "evict_erase"
    /\ can_lock(pool.table_mutex)
    /\ pool' = [pool EXCEPT !.page_table[pool.frames[thr[t].frame_id].page] = kInvalidFrameID,
                            !.frames[thr[t].frame_id] = EmptyFrame,
                            !.pages_evicted = @ + 1]
    /\ thr' = Goto(t, "install_lock")
    /\ UNCHANGED <<treeVars, attached>>

\* fetch_page and new_page, installing: unique lock of the frame
InstallLock(t) ==
    /\ thr[t].pc = "install_lock"
    /\ can_lock(pool.frames[thr[t].frame_id].mutex)
    /\ pool' = [pool EXCEPT !.frames[thr[t].frame_id].mutex = lock_unique(@, t)]
    /\ thr' = Goto(t, "install_table")
    /\ UNCHANGED <<treeVars, attached>>

\* fetch_page and new_page, installing: unique lock of the table, the page
\* put into the frame and pinned, the table entry set; a new page is dirty
InstallTable(t) ==
    /\ thr[t].pc = "install_table"
    /\ can_lock(pool.table_mutex)
    /\ pool' = [pool EXCEPT
                  !.frames[thr[t].frame_id] =
                      [page |-> thr[t].page_id,
                       is_dirty |-> thr[t].op = "new_page",
                       pin_count |-> @.pin_count + 1,
                       ver |-> thr[t].page,
                       mutex |-> Unlocked],
                  !.page_table[thr[t].page_id] = thr[t].frame_id]
    /\ thr' = Return(t, "page")
    /\ UNCHANGED <<treeVars, attached>>

\* unpin_page: shared lock of the table, look the page up
UnpinLookup(t) ==
    /\ thr[t].pc = "unpin_lookup"
    /\ can_lock_shared(pool.table_mutex)
    /\ IF pool.page_table[thr[t].page_id] # kInvalidFrameID
       THEN /\ pool' = [pool EXCEPT !.table_mutex = lock_shared(@, t)]
            /\ thr' = [thr EXCEPT ![t].pc = "unpin_frame",
                                  ![t].frame_id = pool.page_table[thr[t].page_id]]
       ELSE /\ thr' = Return(t, "false")
            /\ UNCHANGED pool
    /\ UNCHANGED <<treeVars, attached>>

\* unpin_page: shared lock of the frame, the dirty bit set if asked, the
\* count decremented.  A caller that says dirty has modified the page.
UnpinFrame(t) ==
    /\ thr[t].pc = "unpin_frame"
    /\ can_lock_shared(pool.frames[thr[t].frame_id].mutex)
    /\ IF pool.frames[thr[t].frame_id].page # thr[t].page_id
       THEN /\ pool' = [pool EXCEPT !.table_mutex = unlock(@, t)]
            /\ thr' = Return(t, "false")
       ELSE /\ pool' = [pool EXCEPT
                          !.frames[thr[t].frame_id].is_dirty = @ \/ thr[t].is_dirty,
                          !.frames[thr[t].frame_id].ver =
                              IF thr[t].is_dirty THEN @ + 1 ELSE @,
                          !.frames[thr[t].frame_id].pin_count = @ - 1,
                          !.table_mutex = unlock(@, t)]
            /\ thr' = Return(t, "true")
    /\ UNCHANGED <<treeVars, attached>>

\* delete_page: unique lock of the table, look the page up
DeleteLookup(t) ==
    /\ thr[t].pc = "delete_lookup"
    /\ can_lock(pool.table_mutex)
    /\ IF pool.page_table[thr[t].page_id] # kInvalidFrameID
       THEN /\ pool' = [pool EXCEPT !.table_mutex = lock_unique(@, t)]
            /\ thr' = [thr EXCEPT ![t].pc = "delete_frame",
                                  ![t].frame_id = pool.page_table[thr[t].page_id]]
       ELSE /\ thr' = Return(t, "true")
            /\ UNCHANGED pool
    /\ UNCHANGED <<treeVars, attached>>

\* delete_page: unique lock of the frame; a pinned frame is refused, another
\* is cleared, its entry erased and its index pushed on the free list
DeleteFrame(t) ==
    /\ thr[t].pc = "delete_frame"
    /\ can_lock(pool.frames[thr[t].frame_id].mutex)
    /\ IF Frame_is_pinned(pool.frames[thr[t].frame_id])
       THEN /\ pool' = [pool EXCEPT !.table_mutex = unlock(@, t)]
            /\ thr' = Return(t, "false")
       ELSE /\ pool' = [pool EXCEPT
                          !.page_table[thr[t].page_id] = kInvalidFrameID,
                          !.frames[thr[t].frame_id] = EmptyFrame,
                          !.free_frames = Append(@, thr[t].frame_id),
                          !.table_mutex = unlock(@, t)]
            /\ thr' = Return(t, "true")
    /\ UNCHANGED <<treeVars, attached>>

\* flush_page: shared lock of the table, look the page up
FlushLookup(t) ==
    /\ thr[t].pc = "flush_lookup"
    /\ can_lock_shared(pool.table_mutex)
    /\ IF pool.page_table[thr[t].page_id] # kInvalidFrameID
       THEN /\ pool' = [pool EXCEPT !.table_mutex = lock_shared(@, t)]
            /\ thr' = [thr EXCEPT ![t].pc = "flush_frame",
                                  ![t].frame_id = pool.page_table[thr[t].page_id]]
       ELSE /\ thr' = Return(t, "true")
            /\ UNCHANGED pool
    /\ UNCHANGED <<treeVars, attached>>

\* flush_page: shared lock of the frame; nothing to do for a clean frame
FlushFrame(t) ==
    /\ thr[t].pc = "flush_frame"
    /\ can_lock_shared(pool.frames[thr[t].frame_id].mutex)
    /\ IF pool.frames[thr[t].frame_id].page = kInvalidPageID
          \/ ~pool.frames[thr[t].frame_id].is_dirty
       THEN /\ pool' = [pool EXCEPT !.table_mutex = unlock(@, t)]
            /\ thr' = Return(t, "true")
       ELSE /\ pool' = [pool EXCEPT !.frames[thr[t].frame_id].mutex = lock_shared(@, t)]
            /\ thr' = Goto(t, "flush_write")
    /\ UNCHANGED <<treeVars, attached>>

\* flush_page: the page is written
FlushWrite(t) ==
    /\ thr[t].pc = "flush_write"
    /\ \E ok \in write_results(attached) :
          IF ok
          THEN /\ pool' = BufferPool_write_page_to_storage(pool, thr[t].frame_id, attached)
               /\ thr' = Goto(t, "flush_clean")
          ELSE /\ pool' = [pool EXCEPT !.frames[thr[t].frame_id].mutex = unlock(@, t),
                                       !.table_mutex = unlock(@, t)]
               /\ thr' = Return(t, "false")
    /\ UNCHANGED <<treeVars, attached>>

\* flush_page: after a write that succeeded the dirty bit is cleared
FlushClean(t) ==
    /\ thr[t].pc = "flush_clean"
    /\ pool' = [pool EXCEPT !.frames[thr[t].frame_id].is_dirty = FALSE,
                            !.frames[thr[t].frame_id].mutex = unlock(@, t),
                            !.table_mutex = unlock(@, t)]
    /\ thr' = Return(t, "true")
    /\ UNCHANGED <<treeVars, attached>>

NextPool ==
    \E t \in Threads :
       \/ PoolCall(t)
       \/ FetchLookup(t)
       \/ FetchFrame(t)
       \/ ReadPage(t)
       \/ FindFreeFrame(t)
       \/ SelectVictim(t)
       \/ EvictLock(t)
       \/ EvictWrite(t)
       \/ EvictErase(t)
       \/ InstallLock(t)
       \/ InstallTable(t)
       \/ UnpinLookup(t)
       \/ UnpinFrame(t)
       \/ DeleteLookup(t)
       \/ DeleteFrame(t)
       \/ FlushLookup(t)
       \/ FlushFrame(t)
       \/ FlushWrite(t)
       \/ FlushClean(t)

SpecPool == InitPool /\ [][NextPool]_vars

(* ========================= BufferPool: claims ========================== *)
\* the frame a thread is evicting or installing into
frame_of(t) == pool.frames[thr[t].frame_id]

\* the thread moves from one statement to another in this step
Moves(t, from, to) == thr[t].pc = from /\ thr'[t].pc = to

\* C6: an eviction clears a dirty victim (a frame whose dirty bit is set,
\* which is what evict_frame reads) only after writing it: it goes on
\* to erase the table entry and clear the frame either from a victim that is
\* clean or from a write after which the backend holds the page's bytes, and
\* nothing touches the victim in between.  A write that fails ends the
\* eviction: the frame keeps its page and its dirty bit, the page table and
\* the free list stay as they are and the caller gets no frame.
C6_EvictionStep ==
    \A t \in Threads :
       /\ Moves(t, "evict_lock", "evict_erase") => ~frame_of(t).is_dirty
       /\ Moves(t, "evict_write", "evict_erase") =>
             /\ frame_of(t).is_dirty
             /\ attached => pool'.disk[frame_of(t).page] = frame_of(t).ver
             /\ pool'.frames[thr[t].frame_id] = frame_of(t)
             /\ pool'.page_table = pool.page_table
       /\ (thr[t].pc = "evict_erase" /\ thr'[t].pc # "evict_erase") =>
             /\ frame_of(t).mutex.writer = t
             /\ frame_of(t).page # kInvalidPageID
             /\ pool'.page_table[frame_of(t).page] = kInvalidFrameID
             /\ pool'.frames[thr[t].frame_id] = EmptyFrame
             /\ pool'.disk = pool.disk
       /\ Moves(t, "evict_write", "idle") =>
             /\ thr'[t].ret = "null"
             /\ pool'.frames[thr[t].frame_id].page = frame_of(t).page
             /\ pool'.frames[thr[t].frame_id].is_dirty
             /\ pool'.frames[thr[t].frame_id].ver = frame_of(t).ver
             /\ pool'.page_table = pool.page_table
             /\ pool'.free_frames = pool.free_frames

C6_DirtyVictimWritten == [][C6_EvictionStep]_vars

\* an eviction has written its victim, a page modified since new_page
\* created it, and is about to erase it from the table
C6_Witness ==
    \E t \in Threads :
       /\ thr[t].pc = "evict_erase"
       /\ attached
       /\ frame_of(t).is_dirty
       /\ frame_of(t).ver > 0
       /\ pool.disk[frame_of(t).page] = frame_of(t).ver

\* C7: a frame with a page and a pin count above zero keeps its page in
\* every step of every interleaving, and a delete_page that finds the page's
\* frame pinned returns false and leaves the frame and the table entry.
C7_PinnedStep ==
    /\ \A f \in FrameIds :
          (pool.frames[f].page # kInvalidPageID /\ pool.frames[f].pin_count # 0)
             => pool'.frames[f].page = pool.frames[f].page
    /\ \A t \in Threads :
          (Moves(t, "delete_frame", "idle") /\ frame_of(t).pin_count # 0) =>
             /\ thr'[t].ret = "false"
             /\ pool'.frames = pool.frames
             /\ pool'.page_table = pool.page_table

C7_PinnedPageStays == [][C7_PinnedStep]_vars

\* delete_page found its page pinned and returned false, while another
\* thread is looking for a victim
C7_Witness ==
    \E t, u \in Threads :
       /\ thr[t].pc = "idle" /\ thr[t].op = "delete_page" /\ thr[t].ret = "false"
       /\ thr[u].pc = "select_victim"
       /\ \E f \in FrameIds : pool.frames[f].pin_count > 0

\* t waits for a lock that u holds
TableSharedSteps == {"fetch_lookup", "unpin_lookup", "flush_lookup"}

TableUniqueSteps == {"delete_lookup", "evict_erase", "install_table"}

FrameSharedSteps == {"fetch_frame", "unpin_frame", "flush_frame"}

FrameUniqueSteps == {"evict_lock", "install_lock", "delete_frame"}

WaitsFor(t, u) ==
    /\ t # u
    /\ \/ thr[t].pc \in TableSharedSteps /\ pool.table_mutex.writer = u
       \/ thr[t].pc \in TableUniqueSteps /\ holds(pool.table_mutex, u)
       \/ thr[t].pc \in FrameSharedSteps /\ frame_of(t).mutex.writer = u
       \/ thr[t].pc \in FrameUniqueSteps /\ holds(frame_of(t).mutex, u)

\* C8: no two threads wait for each other: no thread waits for the page
\* table while it holds a frame that a holder of the page table waits for
C8_NoDeadlock ==
    \A t, u \in Threads : ~(WaitsFor(t, u) /\ WaitsFor(u, t))

(* ==================== tree_mutex_ under concurrency ==================== *)
\* Threads call insert, remove, find, range_scan, bulk_insert and
\* bulk_remove of one tree, a BTree or a BTreeIndex.  What a thread does to
\* the tree's pages between taking and releasing tree_mutex_ is one state,
\* "reading" or "mutating"; the pages themselves are left out.
TreeThreads == 3       \* threads calling the tree
MaxBulk == 2           \* entries of one bulk call

TreeThreadIds == 1..TreeThreads

TreeReaders == {"find", "range_scan"}

PointMutators == {"insert", "remove"}

BulkMutators == {"bulk_insert", "bulk_remove"}

TreeOps == TreeReaders \cup PointMutators \cup BulkMutators

\* every operation taking the shared side
lock_side_shared(op) == "shared"

\* the side of tree_mutex_ an operation takes: std::shared_lock in find and
\* range_scan, std::unique_lock in the others
lock_side(op) == IF op \in TreeReaders THEN "shared" ELSE "unique"

\* the lock can be granted / is taken on the side the operation asks for
can_take(m, op) ==
    IF lock_side(op) = "shared" THEN can_lock_shared(m) ELSE can_lock(m)

take(m, op, t) ==
    IF lock_side(op) = "shared" THEN lock_shared(m, t) ELSE lock_unique(m, t)

TreeIdle == [pc |-> "idle", op |-> "none", left |-> 0, ret |-> "none"]

TreeNew(kind) ==
    [kind |-> kind, mutex |-> Unlocked,
     thr |-> [t \in TreeThreadIds |-> TreeIdle]]

InitTree ==
    /\ tree \in {TreeNew(kind) : kind \in {"BTree", "BTreeIndex"}}
    /\ pool = NotUsed
    /\ thr = NotUsed
    /\ attached = TRUE
    /\ NoTreeData

\* the call of t ends
TreeReturn(t, ret) ==
    [tree EXCEPT !.thr[t] = [TreeIdle EXCEPT !.ret = ret],
                 !.mutex = unlock(@, t)]

\* a thread calls an operation; a bulk call brings 1..MaxBulk entries
TreeCall(t) ==
    /\ tree.thr[t].pc = "idle"
    /\ \E op \in TreeOps, n \in 1..MaxBulk :
          /\ op \notin BulkMutators => n = 1
          /\ tree' = [tree EXCEPT !.thr[t] = [pc |-> "lock", op |-> op,
                                              left |-> n, ret |-> "none"]]
    /\ UNCHANGED <<pages, disk, frame_dirty, free_pages, next_page_id,
                   root_page_id, height, size, aborted, attached, shadow,
                   last, pool, thr, page_obj, sfs,
                   pool_room, allow_duplicates>>

\* the operation's lock of tree_mutex_ is granted.  BTree's bulk calls go on
\* to their point operations with the lock held; BTreeIndex's go on to
\* their loop.
TreeLock(t) ==
    /\ tree.thr[t].pc = "lock"
    /\ can_take(tree.mutex, tree.thr[t].op)
    /\ tree' = [tree EXCEPT
                  !.mutex = take(@, tree.thr[t].op, t),
                  !.thr[t].pc =
                      IF tree.thr[t].op \in TreeReaders THEN "reading"
                      ELSE IF tree.thr[t].op \in BulkMutators
                              /\ tree.kind = "BTreeIndex" THEN "bulk_loop"
                      ELSE "mutating"]
    /\ UNCHANGED <<pages, disk, frame_dirty, free_pages, next_page_id,
                   root_page_id, height, size, aborted, attached, shadow,
                   last, pool, thr, page_obj, sfs,
                   pool_room, allow_duplicates>>

\* find or range_scan has read the tree and returns
TreeRead(t) ==
    /\ tree.thr[t].pc = "reading"
    /\ tree' = TreeReturn(t, "done")
    /\ UNCHANGED <<pages, disk, frame_dirty, free_pages, next_page_id,
                   root_page_id, height, size, aborted, attached, shadow,
                   last, pool, thr, page_obj, sfs,
                   pool_room, allow_duplicates>>

\* one point operation has run: insert or remove returns; BTree's bulk call
\* goes on to its next entry with the lock held and returns after the last;
\* the insert inside BTreeIndex::bulk_insert returns into the loop
TreeMutate(t) ==
    /\ tree.thr[t].pc = "mutating"
    /\ tree' = IF tree.thr[t].op \in PointMutators THEN TreeReturn(t, "done")
               ELSE IF tree.kind = "BTree"
               THEN IF tree.thr[t].left > 1
                    THEN [tree EXCEPT !.thr[t].left = @ - 1]
                    ELSE TreeReturn(t, "done")
               ELSE [tree EXCEPT !.mutex = unlock(@, t),
                                 !.thr[t].pc = "bulk_relock"]
    /\ UNCHANGED <<pages, disk, frame_dirty, free_pages, next_page_id,
                   root_page_id, height, size, aborted, attached, shadow,
                   last, pool, thr, page_obj, sfs,
                   pool_room, allow_duplicates>>

\* the loop of BTreeIndex::bulk_insert and bulk_remove, tree_mutex_ held:
\* bulk_insert unlocks and calls insert; bulk_remove calls remove with the
\* lock held; after the last entry the call returns
BulkLoop(t) ==
    /\ tree.thr[t].pc = "bulk_loop"
    /\ tree' = IF tree.thr[t].left = 0 THEN TreeReturn(t, "done")
               ELSE IF tree.thr[t].op = "bulk_insert"
               THEN [tree EXCEPT !.mutex = unlock(@, t),
                                 !.thr[t].pc = "inner_lock"]
               ELSE [tree EXCEPT !.thr[t].pc = "relock"]
    /\ UNCHANGED <<pages, disk, frame_dirty, free_pages, next_page_id,
                   root_page_id, height, size, aborted, attached, shadow,
                   last, pool, thr, page_obj, sfs,
                   pool_room, allow_duplicates>>

\* BTreeIndex::insert called by bulk_insert: its lock is granted
InnerLock(t) ==
    /\ tree.thr[t].pc = "inner_lock"
    /\ can_take(tree.mutex, "insert")
    /\ tree' = [tree EXCEPT !.mutex = take(@, "insert", t),
                            !.thr[t].pc = "mutating"]
    /\ UNCHANGED <<pages, disk, frame_dirty, free_pages, next_page_id,
                   root_page_id, height, size, aborted, attached, shadow,
                   last, pool, thr, page_obj, sfs,
                   pool_room, allow_duplicates>>

\* BTreeIndex::bulk_insert locks again after its insert returned
BulkRelock(t) ==
    /\ tree.thr[t].pc = "bulk_relock"
    /\ can_take(tree.mutex, tree.thr[t].op)
    /\ tree' = [tree EXCEPT !.mutex = take(@, tree.thr[t].op, t),
                            !.thr[t].pc = "bulk_loop",
                            !.thr[t].left = @ - 1]
    /\ UNCHANGED <<pages, disk, frame_dirty, free_pages, next_page_id,
                   root_page_id, height, size, aborted, attached, shadow,
                   last, pool, thr, page_obj, sfs,
                   pool_room, allow_duplicates>>

\* BTreeIndex::remove called by bulk_remove locks tree_mutex_, which its
\* own thread holds: undefined.  The lock either reports the deadlock
\* (std::system_error leaves bulk_remove, whose lock is released) or never
\* returns.
Relock(t) ==
    /\ tree.thr[t].pc = "relock"
    /\ \E outcome \in {"throws", "hangs"} :
          tree' = IF outcome = "throws" THEN TreeReturn(t, "threw")
                  ELSE [tree EXCEPT !.thr[t].pc = "hung"]
    /\ UNCHANGED <<pages, disk, frame_dirty, free_pages, next_page_id,
                   root_page_id, height, size, aborted, attached, shadow,
                   last, pool, thr, page_obj, sfs,
                   pool_room, allow_duplicates>>

NextTree ==
    \E t \in TreeThreadIds :
       \/ TreeCall(t)
       \/ TreeLock(t)
       \/ TreeRead(t)
       \/ TreeMutate(t)
       \/ BulkLoop(t)
       \/ InnerLock(t)
       \/ BulkRelock(t)
       \/ Relock(t)

SpecTree == InitTree /\ [][NextTree]_vars

(* ========================== tree_mutex_: claims ======================== *)
Mutating == {t \in TreeThreadIds : tree.thr[t].pc = "mutating"}

Reading == {t \in TreeThreadIds : tree.thr[t].pc = "reading"}

\* C9: in one tree at most one point operation of a mutator (insert, remove,
\* or one inside a bulk call) runs at a time, and no find or range_scan
\* runs while one does.
C9_MutatorsExclusive ==
    /\ Cardinality(Mutating) <= 1
    /\ Mutating # {} => Reading = {}

\* two readers run together while a mutator waits for the lock, in a tree
\* whose bulk_insert has released the lock around its insert
C9_Witness ==
    /\ Cardinality(Reading) >= 2
    /\ \E t \in TreeThreadIds :
          tree.thr[t].pc = "inner_lock" /\ ~can_take(tree.mutex, "insert")

(* ======================= BTree: range_scan, bulk ======================= *)
\* std::vector<BTreeEntry>::emplace_back
emplace_back(results, key, value) == Append(results, <<key, value>>)

\* the for loop of range_scan over one leaf, from position i: the entries
\* collected, and whether a key above end_key ended the scan
RECURSIVE scan_leaf(_, _, _, _)
scan_leaf(leaf, i, end_key, results) ==
    IF i >= num_keys(leaf) THEN [results |-> results, done |-> FALSE]
    ELSE IF compare_keys(key_at(leaf, i), end_key) > 0
    THEN [results |-> results, done |-> TRUE]
    ELSE With(emplace_back(results, key_at(leaf, i), value_at(leaf, i)),
              LAMBDA more : scan_leaf(leaf, i + 1, end_key, more))

\* the while loop of range_scan; fuel bounds the leaves visited, and a scan
\* that uses it up is one that never returns (the chain of leaves is cyclic)
RECURSIVE scan_leaves(_, _, _, _, _, _)
scan_leaves(s, leaf0, pos, end_key, results0, fuel) ==
    With2(leaf0, results0, LAMBDA leaf, results :
        IF leaf = NoPage \/ ~is_leaf(leaf)
        THEN [results |-> results, dead |-> FALSE]
        ELSE IF fuel = 0 THEN [results |-> results, dead |-> TRUE]
        ELSE With(scan_leaf(leaf, pos, end_key, results), LAMBDA r :
            IF r.done \/ leaf.next_id = kInvalidPageID
            THEN [results |-> r.results, dead |-> FALSE]
            ELSE scan_leaves(s, load_node(s, leaf.next_id), 0, end_key,
                             r.results, fuel - 1)))

\* BTree::range_scan
range_scan(s, start_key, end_key) ==
    With(find_leaf_node(s, start_key), LAMBDA leaf :
        IF leaf = NoPage THEN [results |-> <<>>, dead |-> FALSE]
        ELSE scan_leaves(s, leaf, search_key(leaf, start_key), end_key, <<>>,
                         MaxPages + 1))

\* the entries held with start_key <= key <= end_key, ascending
RECURSIVE EntriesBetween(_, _)
EntriesBetween(start_key, end_key) ==
    IF start_key > end_key THEN <<>>
    ELSE (IF shadow[start_key] # 0 THEN <<<<start_key, shadow[start_key]>>>>
          ELSE <<>>) \o EntriesBetween(start_key + 1, end_key)

\* C11: range_scan(lo, hi) returns exactly the entries held with
\* lo <= key <= hi, each once, in ascending key order, and nothing when
\* lo > hi.
C11_RangeScanExact ==
    ~aborted =>
       \A lo \in Keys, hi \in Keys :
          range_scan(State(FALSE), lo, hi)
             = [results |-> EntriesBetween(lo, hi), dead |-> FALSE]

(* ------------------- BTree on a pool that runs full -------------------- *)
\* The engine's pool has BufferPoolConfig_pool_size frames whatever the
\* StorageConfig says, and every page the engine hands out stays pinned.
\* MaxPoolRoom bounds the frames left to the tree when it is built: the
\* other frames hold pages the application took with new_page.
MaxPoolRoom == 4

BTreeNewIn(room) ==
    LET s0 == [EmptyStorage EXCEPT !.pool_room = room]
        s1 == [create_node(s0, "Leaf") EXCEPT !.root_page_id = created(s0)]
        s2 == save_node(s1, BTreeNode(s1.root_page_id, "Leaf"))
    IN [s2 EXCEPT !.height = 1]

InitBTreeFull ==
    \E room \in 1..MaxPoolRoom :
       /\ pool_room = room
       /\ allow_duplicates = FALSE
       /\ pages = BTreeNewIn(room).pages
       /\ disk = BTreeNewIn(room).disk
       /\ frame_dirty = BTreeNewIn(room).frame_dirty
       /\ free_pages = BTreeNewIn(room).free_pages
       /\ next_page_id = BTreeNewIn(room).next_page_id
       /\ root_page_id = BTreeNewIn(room).root_page_id
       /\ height = BTreeNewIn(room).height
       /\ size = BTreeNewIn(room).size
       /\ aborted = FALSE
       /\ attached = TRUE
       /\ shadow = [k \in Keys |-> 0]
       /\ last = NoCall
       /\ pool = NotUsed /\ thr = NotUsed /\ tree = NotUsed
       /\ page_obj = NotUsed /\ sfs = NotUsed

SpecBTreeFull == InitBTreeFull /\ [][NextBTree]_vars

\* the state after the step
StateNext ==
    [pages |-> pages', disk |-> disk', frame_dirty |-> frame_dirty',
     free_pages |-> free_pages', next_page_id |-> next_page_id',
     root_page_id |-> root_page_id', height |-> height', size |-> size',
     aborted |-> aborted', hardened |-> FALSE, attached |-> attached',
     pool_room |-> pool_room', allow_duplicates |-> allow_duplicates']

\* what find answers for every key and what a scan of all keys yields
Answers(s) ==
    [finds |-> [k \in Keys |-> find_internal(s, k)],
     scan |-> range_scan(s, 1, MaxKey)]

C12_InsertStep ==
    (last'.op = "insert" /\ last'.result = 0 /\ ~aborted') =>
       /\ size' = size
       /\ Answers(StateNext) = Answers(State(FALSE))

\* C12: an insert that returns false, for a key the tree holds or because a
\* page could not be allocated or fetched during a split, leaves size() and
\* the entries find and a scan reach as they were before the call.
C12_FailedInsertKeepsTree == [][C12_InsertStep]_vars

\* C13: every bulk_remove call, of a BTree or of a BTreeIndex, comes back
\* with its count: none ends in an exception and none waits for ever.
C13_BulkRemoveReturns ==
    \A t \in TreeThreadIds :
       tree.thr[t].pc # "hung" /\ tree.thr[t].ret # "threw"

(* ================= src/storage/page.cpp: slotted Page ================== *)
\* A Page keeps its PageHeader fields and kPageSize bytes.  Behind the
\* PageHeader::kSize bytes reserved for the header the slot directory grows
\* upwards, four bytes an entry, and the records grow downwards from the end
\* of the page.  The model's page has SlotPageSize bytes instead of
\* kPageSize, so that a handful of short records fills it.
SlotDataBytes == 11
PageHeader_kSize == 32
sizeof_SlotEntry == 4
SlotPageSize == PageHeader_kSize + SlotDataBytes
MaxRecordSize == 3
MaxRecordByte == 2
kNoSlot == 65535

uint16(n) == n % 65536

SlotIds == 0..((SlotDataBytes \div sizeof_SlotEntry) - 1)
RecordSizes == 1..MaxRecordSize
\* the records a caller passes: size bytes, all of one value
Records == {[i \in 1..n |-> b] : n \in RecordSizes, b \in 1..MaxRecordByte}
NoRecord == <<>>

\* the bytes of the page behind the header
Offsets == PageHeader_kSize..(SlotPageSize - 1)

\* Page::Page and PageFactory::create_page
PageNew ==
    [free_space_offset |-> SlotPageSize,
     free_space_size |-> SlotPageSize - PageHeader_kSize,
     slot_count |-> 0,
     data |-> [o \in Offsets |-> 0],
     wild |-> FALSE]

\* std::memcpy(raw_data() + offset, bytes, Len(bytes)); wild records a copy
\* that leaves the bytes behind the header
memcpy(P, offset, bytes) ==
    [P EXCEPT !.data = [o \in Offsets |->
                           IF o >= offset /\ o < offset + Len(bytes)
                           THEN bytes[o - offset + 1] ELSE P.data[o]],
              !.wild = P.wild \/ (Len(bytes) > 0 /\
                          (offset < PageHeader_kSize
                             \/ offset + Len(bytes) > SlotPageSize))]

\* a read of one byte of the page
raw_data(P, o) == IF o \in Offsets THEN P.data[o] ELSE 0

\* SlotEntry: two little-endian uint16, offset and length
slot_address(slot_id) == PageHeader_kSize + slot_id * sizeof_SlotEntry

slot_entry(P, slot_id) ==
    [offset |-> raw_data(P, slot_address(slot_id))
                   + 256 * raw_data(P, slot_address(slot_id) + 1),
     length |-> raw_data(P, slot_address(slot_id) + 2)
                   + 256 * raw_data(P, slot_address(slot_id) + 3)]

set_slot(P, slot_id, offset, length) ==
    memcpy(P, slot_address(slot_id),
           <<offset % 256, offset \div 256, length % 256, length \div 256>>)

SlotEntry_is_free(slot) == slot.offset = 0 /\ slot.length = 0
mark_free(P, slot_id) == set_slot(P, slot_id, 0, 0)

\* Page::get_slot returns nullptr behind slot_count
has_slot(P, slot_id) == slot_id < P.slot_count

\* a directory that never offers a freed slot
no_free_slot(P) == kNoSlot

\* Page::find_free_slot
find_free_slot(P) ==
    LET free == {i \in 0..(P.slot_count - 1) :
                    SlotEntry_is_free(slot_entry(P, i))}
    IN IF free = {} THEN kNoSlot
       ELSE CHOOSE i \in free : \A j \in free : i <= j

\* Page::available_space
available_space(P) ==
    LET slot_dir_space == PageHeader_kSize + P.slot_count * sizeof_SlotEntry
        used_data_space == SlotPageSize - P.free_space_offset
        total_used == slot_dir_space + used_data_space
    IN IF total_used >= SlotPageSize THEN 0 ELSE SlotPageSize - total_used

\* Page::get_record: the bytes of the record, NoRecord for nullptr
get_record(P, slot_id) ==
    IF ~has_slot(P, slot_id) \/ SlotEntry_is_free(slot_entry(P, slot_id))
    THEN NoRecord
    ELSE LET slot == slot_entry(P, slot_id)
         IN [i \in 1..slot.length |-> raw_data(P, slot.offset + i - 1)]

\* the loop of Page::compact that lays the collected records out again
RECURSIVE reinsert(_, _, _)
reinsert(P, records, slot_id) ==
    IF slot_id >= P.slot_count THEN P
    ELSE IF records[slot_id] = NoRecord THEN reinsert(P, records, slot_id + 1)
    ELSE LET length == Len(records[slot_id])
             data_offset == uint16(P.free_space_offset - length)
             P1 == set_slot(P, slot_id, data_offset, length)
             P2 == memcpy(P1, data_offset, records[slot_id])
         IN reinsert([P2 EXCEPT !.free_space_offset = data_offset,
                                !.free_space_size = uint16(P.free_space_size - length)],
                     records, slot_id + 1)

RECURSIVE clear_slots(_, _)
clear_slots(P, slot_id) ==
    IF slot_id >= P.slot_count THEN P
    ELSE clear_slots(mark_free(P, slot_id), slot_id + 1)

\* a compaction that leaves the records where they are
leave_holes(P) == P

\* Page::compact
compact(P) ==
    IF P.slot_count = 0 THEN P
    ELSE LET records == [i \in 0..(P.slot_count - 1) |-> get_record(P, i)]
             P1 == [P EXCEPT !.free_space_offset = SlotPageSize,
                             !.free_space_size =
                                 uint16(SlotPageSize - PageHeader_kSize
                                          - P.slot_count * sizeof_SlotEntry)]
         IN reinsert(clear_slots(P1, 0), records, 0)

\* Page::insert_record of a record of one byte or more: the page and the
\* slot id returned
insert_record(P0, record) ==
    LET length == Len(record)
        found == find_free_slot(P0)
        need_new_slot == found = kNoSlot
        slot_id == IF need_new_slot THEN P0.slot_count ELSE found
        required_space == length + (IF need_new_slot THEN sizeof_SlotEntry ELSE 0)
        P == IF available_space(P0) < required_space THEN compact(P0) ELSE P0
    IN IF available_space(P) < required_space
       THEN [page |-> P, slot_id |-> kNoSlot]
       ELSE LET data_offset == uint16(P.free_space_offset - length)
                P1 == IF need_new_slot
                      THEN [P EXCEPT !.slot_count = uint16(P.slot_count + 1)]
                      ELSE P
                P2 == set_slot(P1, slot_id, data_offset, length)
                P3 == memcpy(P2, data_offset, record)
            IN [page |-> [P3 EXCEPT
                            !.free_space_offset = data_offset,
                            !.free_space_size =
                                uint16(P.free_space_size - length
                                         - (IF need_new_slot
                                            THEN sizeof_SlotEntry ELSE 0))],
                slot_id |-> slot_id]

\* a delete_record that gives no space back
delete_record_leak(P, slot_id) ==
    IF ~has_slot(P, slot_id) \/ SlotEntry_is_free(slot_entry(P, slot_id))
    THEN [page |-> P, result |-> FALSE]
    ELSE [page |-> mark_free(P, slot_id), result |-> TRUE]

\* Page::delete_record
delete_record(P, slot_id) ==
    IF ~has_slot(P, slot_id) \/ SlotEntry_is_free(slot_entry(P, slot_id))
    THEN [page |-> P, result |-> FALSE]
    ELSE [page |-> [mark_free(P, slot_id) EXCEPT
                      !.free_space_size =
                          uint16(P.free_space_size
                                   + slot_entry(P, slot_id).length)],
          result |-> TRUE]

\* Page::update_record
update_record(P, slot_id, record) ==
    IF ~has_slot(P, slot_id) \/ SlotEntry_is_free(slot_entry(P, slot_id))
    THEN [page |-> P, result |-> FALSE]
    ELSE IF Len(record) = slot_entry(P, slot_id).length
    THEN [page |-> memcpy(P, slot_entry(P, slot_id).offset, record),
          result |-> TRUE]
    ELSE LET ins == insert_record(delete_record(P, slot_id).page, record)
             new_slot == ins.slot_id
         IN IF new_slot = kNoSlot THEN [page |-> ins.page, result |-> FALSE]
            ELSE IF new_slot # slot_id
            THEN [page |-> mark_free(
                             set_slot(ins.page, slot_id,
                                      slot_entry(ins.page, new_slot).offset,
                                      slot_entry(ins.page, new_slot).length),
                             new_slot),
                  result |-> TRUE]
            ELSE [page |-> ins.page, result |-> TRUE]

(* -------------------------- Page: state machine ------------------------ *)
\* shadow maps each slot id to the bytes last stored under it by a call
\* that succeeded, NoRecord when the slot holds no record; last is the last
\* call, the lowest slot without a record, the length of the directory and
\* available_space() before it, and whether every call so far succeeded.
LowestFree(count) ==
    LET free == {i \in 0..(count - 1) : shadow[i] = NoRecord}
    IN IF free = {} THEN kNoSlot ELSE CHOOSE i \in free : \A j \in free : i <= j

PageCall(op, slot_id, ok) ==
    [op |-> op, slot_id |-> slot_id, ok |-> ok, all_ok |-> last.all_ok /\ ok,
     free_before |-> LowestFree(page_obj.slot_count),
     count_before |-> page_obj.slot_count,
     space_before |-> available_space(page_obj)]

pageOthers == <<pages, disk, frame_dirty, free_pages, next_page_id,
                root_page_id, height, size, aborted, attached, pool, thr,
                tree, sfs, pool_room, allow_duplicates>>

InitPage ==
    /\ page_obj = PageNew
    /\ shadow = [i \in SlotIds |-> NoRecord]
    /\ last = [op |-> "none", slot_id |-> kNoSlot, ok |-> TRUE, all_ok |-> TRUE,
               free_before |-> kNoSlot, count_before |-> 0,
               space_before |-> SlotDataBytes]
    /\ pages = EmptyStorage.pages
    /\ disk = EmptyStorage.disk
    /\ frame_dirty = {}
    /\ free_pages = {}
    /\ next_page_id = 1
    /\ root_page_id = kInvalidPageID
    /\ height = 0
    /\ size = 0
    /\ aborted = FALSE
    /\ attached = FALSE
    /\ pool = NotUsed /\ thr = NotUsed /\ tree = NotUsed /\ sfs = NotUsed
    /\ pool_room = BufferPoolConfig_pool_size
    /\ allow_duplicates = FALSE

InsertRecord ==
    \E record \in Records :
       LET r == insert_record(page_obj, record)
       IN /\ page_obj' = r.page
          /\ shadow' = IF r.slot_id = kNoSlot THEN shadow
                       ELSE [shadow EXCEPT ![r.slot_id] = record]
          /\ last' = PageCall("insert_record", r.slot_id, r.slot_id # kNoSlot)
          /\ UNCHANGED pageOthers

UpdateRecord ==
    \E slot_id \in SlotIds, record \in Records :
       LET r == update_record(page_obj, slot_id, record)
       IN /\ page_obj' = r.page
          /\ shadow' = IF r.result THEN [shadow EXCEPT ![slot_id] = record]
                       ELSE shadow
          /\ last' = PageCall("update_record", slot_id, r.result)
          /\ UNCHANGED pageOthers

DeleteRecord ==
    \E slot_id \in SlotIds :
       LET r == delete_record(page_obj, slot_id)
       IN /\ page_obj' = r.page
          /\ shadow' = IF r.result THEN [shadow EXCEPT ![slot_id] = NoRecord]
                       ELSE shadow
          /\ last' = PageCall("delete_record", slot_id, r.result)
          /\ UNCHANGED pageOthers

Compact ==
    /\ page_obj' = compact(page_obj)
    /\ last' = PageCall("compact", kNoSlot, TRUE)
    /\ UNCHANGED <<shadow, pageOthers>>

NextPage == InsertRecord \/ UpdateRecord \/ DeleteRecord \/ Compact

SpecPage == InitPage /\ [][NextPage]_vars

\* C14: as long as every insert_record, update_record, delete_record and
\* compact call has succeeded, get_record returns for every slot the bytes
\* last stored under it (and nothing for a slot that holds no record), no
\* copy has left the page, and an insert_record that succeeded returned the
\* lowest slot without a record, or the end of the directory when every
\* slot held one.
C14_SlotsPreserved ==
    last.all_ok =>
       /\ ~page_obj.wild
       /\ \A i \in SlotIds : get_record(page_obj, i) = shadow[i]
       /\ last.op = "insert_record" =>
             last.slot_id = IF last.free_before # kNoSlot
                            THEN last.free_before ELSE last.count_before

\* an insert_record found too little room for its record, compacted the
\* page and put the record into the freed slot 0, while the record of slot
\* 1 stayed retrievable
C14_Witness ==
    /\ last.all_ok
    /\ last.op = "insert_record"
    /\ last.free_before = 0
    /\ last.slot_id = 0
    /\ last.space_before < Len(shadow[0])
    /\ shadow[1] # NoRecord
    /\ get_record(page_obj, 1) = shadow[1]

\* ---------------------------------------------------------------------------
\* BufferPool: frames in use, and a pool filled beyond its size
\* ---------------------------------------------------------------------------

\* BufferPool::used_frames
used_frames(P) ==
    Cardinality({p \in PoolPageIds : P.page_table[p] # kInvalidFrameID})

\* last tells the two kinds of run apart: NoCall, threads calling whatever
\* they like, and FillMode, one thread that creates page after page on a pool
\* of its own and unpins each as soon as it has it
FillMode == [op |-> "fill", key |-> 0, held |-> FALSE, result |-> 0]

InitPoolFill ==
    /\ pool = BufferPoolNew
    /\ thr = [t \in Threads |-> Idle]
    /\ \/ last = NoCall /\ attached \in BOOLEAN
       \/ last = FillMode /\ attached = FALSE
    /\ pages = EmptyStorage.pages
    /\ disk = EmptyStorage.disk
    /\ frame_dirty = {}
    /\ free_pages = {}
    /\ next_page_id = 1
    /\ root_page_id = kInvalidPageID
    /\ height = 0
    /\ size = 0
    /\ aborted = FALSE
    /\ shadow = [k \in Keys |-> 0]
    /\ page_obj = NotUsed
    /\ sfs = NotUsed
    /\ pool_room = BufferPoolConfig_pool_size
    /\ allow_duplicates = FALSE
    /\ tree = NotUsed

\* the threads of a run of the first kind call as PoolCall lets them
AnyCall(t) == last = NoCall /\ PoolCall(t)

\* the filling thread calls new_page, and unpin_page for the page it got
FillCall(t) ==
    /\ last = FillMode
    /\ t = 1
    /\ thr[t].pc = "idle"
    /\ thr[t].ret # "null"
    /\ IF thr[t].op = "new_page"
       THEN \E is_dirty \in BOOLEAN :
               thr' = [thr EXCEPT ![t] = [Idle EXCEPT
                                            !.pc = first_step("unpin_page"),
                                            !.op = "unpin_page",
                                            !.page_id = pool.next_page_id - 1,
                                            !.is_dirty = is_dirty]]
       ELSE /\ pool.next_page_id \in PoolPageIds
            /\ thr' = [thr EXCEPT ![t] = [Idle EXCEPT
                                            !.pc = first_step("new_page"),
                                            !.op = "new_page",
                                            !.page_id = pool.next_page_id]]
    /\ pool' = [pool EXCEPT !.calls = @ + 1,
                            !.next_page_id = IF thr[t].op = "new_page"
                                             THEN @ ELSE @ + 1]
    /\ UNCHANGED <<treeVars, attached>>

NextPoolFill ==
    \E t \in Threads :
       \/ AnyCall(t)
       \/ FillCall(t)
       \/ FetchLookup(t)
       \/ FetchFrame(t)
       \/ ReadPage(t)
       \/ FindFreeFrame(t)
       \/ SelectVictim(t)
       \/ EvictLock(t)
       \/ EvictWrite(t)
       \/ EvictErase(t)
       \/ InstallLock(t)
       \/ InstallTable(t)
       \/ UnpinLookup(t)
       \/ UnpinFrame(t)
       \/ DeleteLookup(t)
       \/ DeleteFrame(t)
       \/ FlushLookup(t)
       \/ FlushFrame(t)
       \/ FlushWrite(t)
       \/ FlushClean(t)

SpecPoolFill == InitPoolFill /\ [][NextPoolFill]_vars

\* the pages the filling thread has created so far
pages_created == pool.next_page_id - 1

\* C20: used_frames() never exceeds pool_size, whatever the threads call; and
\* when N > pool_size pages are created with new_page and unpinned one after
\* the other, every new_page returns a page and at least N - pool_size
\* evictions are counted.
C20_PoolBounded ==
    /\ used_frames(pool) <= PoolSize
    /\ last = FillMode =>
          /\ thr[1].ret # "null"
          /\ thr[1].pc = "idle" => pool.pages_evicted >= pages_created - PoolSize

\* more pages than frames have been created and unpinned, with an eviction
C20_Witness ==
    /\ last = FillMode
    /\ thr[1].pc = "idle" /\ thr[1].op = "unpin_page" /\ thr[1].ret = "true"
    /\ pages_created > PoolSize
    /\ pool.pages_evicted >= 1
    /\ used_frames(pool) = PoolSize

\* ---------------------------------------------------------------------------
\* src/storage/single_file_storage.cpp: SingleFileStorage
\*
\* sfs is one SingleFileStorage object together with the database file it
\* names.  The object's buffer pool is reduced to its frames and page table.
\* ---------------------------------------------------------------------------

MaxSfsCalls == 6          \* calls in one run
SfsPoolSize == 2          \* config_.buffer_pool_size of the modelled object

HeaderPage_version == 65536    \* 0x00010000
OtherVersion == 131072         \* a version the build does not know
OtherPageSize == 4096          \* a page size the build was not compiled for

SfsFrameIds == 1..SfsPoolSize

\* page ids handed to delete_page: the header page, a page that was never
\* allocated, the pages new_page hands out first, ids past the end of the file
SfsDeleteIds == {0, 1, 63, 64, 65}

HeaderPageNew ==
    [magic |-> "LUMENDB", version |-> HeaderPage_version,
     page_size |-> kPageSize, page_count |-> 0, free_pages |-> 0,
     free_list_head |-> kInvalidPageID, header_checksum |-> 0]

\* CRC-32 of the header without its checksum fields, reduced to a hash of the
\* fields the model keeps (the sum stays below 2^31 for the headers modelled)
calculate_header_checksum(h) ==
    ((IF h.magic = "LUMENDB" THEN 7 ELSE 5) + 11 * h.version
        + 13 * h.page_size + 17 * h.page_count + 19 * h.free_pages
        + 23 * h.free_list_head + 1)

NoDatabase == [exists |-> FALSE, header |-> HeaderPageNew]

NoFramePage == [page_id |-> kInvalidPageID, pin_count |-> 0]

SfsNew(initial_size_mb) ==
    [initial_size_mb |-> initial_size_mb,
     is_open |-> FALSE,
     header |-> HeaderPageNew,
     free_page_list |-> <<>>,
     has_pool |-> FALSE,
     frames |-> [f \in SfsFrameIds |-> NoFramePage],
     page_table |-> <<>>,
     file |-> NoDatabase,
     calls |-> 0]

SingleFileStorage_write_header(s) ==
    LET h == [s.header EXCEPT !.header_checksum = calculate_header_checksum(s.header)]
    IN [s EXCEPT !.header = h, !.file = [exists |-> TRUE, header |-> h]]

SingleFileStorage_read_header(s) ==
    LET h == s.file.header
        calculated == calculate_header_checksum(h)
    IN IF h.header_checksum # 0 /\ h.header_checksum # calculated
       THEN SingleFileStorage_write_header(
                [s EXCEPT !.header = [h EXCEPT !.header_checksum = calculated]])
       ELSE [s EXCEPT !.header = h]

grow_file(s, new_page_count) ==
    IF new_page_count <= s.header.page_count THEN s
    ELSE [s EXCEPT
            !.free_page_list = @ \o [i \in 1..(new_page_count - s.header.page_count)
                                       |-> s.header.page_count + i - 1],
            !.header.free_pages = @ + (new_page_count - s.header.page_count),
            !.header.page_count = new_page_count]

make_pool(s) ==
    IF s.has_pool THEN s
    ELSE [s EXCEPT !.has_pool = TRUE,
                   !.frames = [f \in SfsFrameIds |-> NoFramePage],
                   !.page_table = <<>>]

create_file(s) ==
    LET s1 == SingleFileStorage_write_header(
                  [s EXCEPT !.header = [HeaderPageNew EXCEPT !.page_count = 1]])
        initial_pages == (s.initial_size_mb * 1024 * 1024) \div kPageSize
        s2 == IF initial_pages > 1 THEN grow_file(s1, initial_pages) ELSE s1
    IN [s |-> [make_pool(s2) EXCEPT !.is_open = TRUE], ret |-> TRUE]

open_file(s) ==
    LET s1 == SingleFileStorage_read_header(s)
    IN IF s1.header.magic # "LUMENDB" THEN [s |-> s1, ret |-> FALSE]
       ELSE IF s1.header.page_size # kPageSize THEN [s |-> s1, ret |-> FALSE]
       ELSE [s |-> [make_pool(s1) EXCEPT !.is_open = TRUE], ret |-> TRUE]

SingleFileStorage_open(s) ==
    IF s.is_open THEN [s |-> s, ret |-> TRUE]
    ELSE IF ~s.file.exists THEN create_file(s)
    ELSE open_file(s)

SingleFileStorage_create(s) ==
    IF s.file.exists THEN SingleFileStorage_open(s)
    ELSE create_file(s)

SingleFileStorage_close(s) ==
    IF ~s.is_open THEN s
    ELSE [SingleFileStorage_write_header(s) EXCEPT !.is_open = FALSE]

pop_back(s) ==
    [s |-> [s EXCEPT !.free_page_list = SubSeq(@, 1, Len(@) - 1),
                     !.header.free_pages = @ - 1],
     page_id |-> s.free_page_list[Len(s.free_page_list)]]

allocate_page(s) ==
    IF s.free_page_list # <<>> THEN pop_back(s)
    ELSE LET doubled == s.header.page_count * 2
             new_count == IF doubled < s.header.page_count + 64
                          THEN s.header.page_count + 64 ELSE doubled
         IN pop_back(grow_file(s, new_count))

deallocate_page(s, page_id) ==
    [s EXCEPT !.free_page_list = Append(@, page_id),
              !.header.free_pages = @ + 1]

\* BufferPool, as far as SingleFileStorage drives it
free_frames(s) == {f \in SfsFrameIds : s.frames[f].page_id = kInvalidPageID}

victims(s) == {f \in SfsFrameIds : /\ s.frames[f].page_id # kInvalidPageID
                                   /\ s.frames[f].pin_count = 0}

lowest(S) == CHOOSE f \in S : \A g \in S : f <= g

table_erase(t, page_id) == [p \in DOMAIN t \ {page_id} |-> t[p]]

table_put(t, page_id, f) ==
    [p \in DOMAIN t \cup {page_id} |-> IF p = page_id THEN f ELSE t[p]]

sfs_evict_frame(s) ==
    LET f == lowest(victims(s))
    IN [s EXCEPT !.page_table = table_erase(@, s.frames[f].page_id),
                 !.frames[f] = NoFramePage]

new_page_with_id(s, page_id) ==
    IF free_frames(s) = {} /\ victims(s) = {} THEN [s |-> s, ok |-> FALSE]
    ELSE LET s1 == IF free_frames(s) # {} THEN s ELSE sfs_evict_frame(s)
             f == lowest(free_frames(s1))
         IN [s |-> [s1 EXCEPT !.frames[f] = [page_id |-> page_id, pin_count |-> 1],
                              !.page_table = table_put(@, page_id, f)],
             ok |-> TRUE]

sfs_unpin_page(s, page_id) ==
    IF page_id \notin DOMAIN s.page_table THEN s
    ELSE LET f == s.page_table[page_id]
         IN IF s.frames[f].page_id # page_id THEN s
            ELSE [s EXCEPT !.frames[f].pin_count = IF @ > 0 THEN @ - 1 ELSE 0]

sfs_pool_delete_page(s, page_id) ==
    IF page_id \notin DOMAIN s.page_table THEN s
    ELSE LET f == s.page_table[page_id]
         IN IF s.frames[f].pin_count > 0 THEN s
            ELSE [s EXCEPT !.page_table = table_erase(@, page_id),
                           !.frames[f] = NoFramePage]

SingleFileStorage_new_page(s) ==
    IF ~s.is_open THEN [s |-> s, ok |-> FALSE, page_id |-> kInvalidPageID]
    ELSE LET a == allocate_page(s)
             p == new_page_with_id(a.s, a.page_id)
         IN IF a.page_id = kInvalidPageID
            THEN [s |-> a.s, ok |-> FALSE, page_id |-> kInvalidPageID]
            ELSE IF ~p.ok
            THEN [s |-> deallocate_page(p.s, a.page_id), ok |-> FALSE,
                  page_id |-> kInvalidPageID]
            ELSE [s |-> p.s, ok |-> TRUE, page_id |-> a.page_id]

SingleFileStorage_delete_page(s, page_id) ==
    IF ~s.is_open \/ page_id = 0 \/ page_id >= s.header.page_count
    THEN [s |-> s, ret |-> FALSE]
    ELSE [s |-> deallocate_page(sfs_pool_delete_page(s, page_id), page_id),
          ret |-> TRUE]

\* the accessors
free_page_count(s) == s.header.free_pages
page_count(s) == s.header.page_count

\* --- the specification ---

\* what a header must look like for open to accept it
header_valid(h) ==
    /\ h.magic = "LUMENDB"
    /\ h.version = HeaderPage_version
    /\ h.page_size = kPageSize
    /\ h.header_checksum = calculate_header_checksum(h)

SeqSet(q) == {q[i] : i \in 1..Len(q)}

SfsCall(op, ret) ==
    [op |-> op, ret |-> ret, page_id |-> kInvalidPageID, file_before |-> sfs.file,
     open_before |-> sfs.is_open,
     free_before |-> sfs.free_page_list,
     live_before |-> shadow.live]

sfsOthers == <<pages, disk, frame_dirty, free_pages, next_page_id,
               root_page_id, height, size, aborted, attached, pool, thr,
               tree, page_obj, pool_room, allow_duplicates>>

InitSfs ==
    /\ \E mb \in {0, 1} : sfs = SfsNew(mb)
    /\ shadow = [live |-> {}, closed_free |-> <<>>, closed |-> FALSE, stray |-> FALSE]
    /\ last = [op |-> "none", ret |-> FALSE, page_id |-> kInvalidPageID,
               file_before |-> NoDatabase,
               open_before |-> FALSE, free_before |-> <<>>, live_before |-> {}]
    /\ pages = EmptyStorage.pages
    /\ disk = EmptyStorage.disk
    /\ frame_dirty = {}
    /\ free_pages = {}
    /\ next_page_id = 1
    /\ root_page_id = kInvalidPageID
    /\ height = 0
    /\ size = 0
    /\ aborted = FALSE
    /\ attached = FALSE
    /\ pool = NotUsed /\ thr = NotUsed /\ tree = NotUsed /\ page_obj = NotUsed
    /\ pool_room = BufferPoolConfig_pool_size
    /\ allow_duplicates = FALSE

Counted(s) == [s EXCEPT !.calls = @ + 1]

SfsCreate ==
    /\ sfs.calls < MaxSfsCalls
    /\ LET r == SingleFileStorage_create(sfs)
       IN /\ sfs' = Counted(r.s)
          /\ last' = SfsCall("create", r.ret)
    /\ UNCHANGED <<shadow, sfsOthers>>

SfsOpen ==
    /\ sfs.calls < MaxSfsCalls
    /\ LET r == SingleFileStorage_open(sfs)
       IN /\ sfs' = Counted(r.s)
          /\ last' = SfsCall("open", r.ret)
    /\ UNCHANGED <<shadow, sfsOthers>>

SfsClose ==
    /\ sfs.calls < MaxSfsCalls
    /\ sfs' = Counted(SingleFileStorage_close(sfs))
    /\ last' = SfsCall("close", TRUE)
    /\ shadow' = IF sfs.is_open
                 THEN [shadow EXCEPT !.closed_free = sfs.free_page_list,
                                     !.closed = TRUE]
                 ELSE shadow
    /\ UNCHANGED sfsOthers

\* the object is destroyed (its destructor closes it) and another one is
\* constructed for the same file
SfsAgain ==
    /\ sfs.calls < MaxSfsCalls
    /\ sfs.file.exists
    /\ LET s == SingleFileStorage_close(sfs)
       IN sfs' = [SfsNew(sfs.initial_size_mb) EXCEPT !.file = s.file,
                                                     !.calls = sfs.calls + 1]
    /\ last' = SfsCall("again", TRUE)
    /\ shadow' = IF sfs.is_open
                 THEN [shadow EXCEPT !.closed_free = sfs.free_page_list,
                                     !.closed = TRUE]
                 ELSE shadow
    /\ UNCHANGED sfsOthers

SfsNewPage ==
    /\ sfs.calls < MaxSfsCalls
    /\ LET r == SingleFileStorage_new_page(sfs)
       IN /\ sfs' = Counted(r.s)
          /\ last' = [SfsCall("new_page", r.ok) EXCEPT !.page_id = r.page_id]
          /\ shadow' = IF ~r.ok THEN shadow
                       ELSE [shadow EXCEPT !.live = @ \cup {r.page_id}]
    /\ UNCHANGED sfsOthers

SfsDeletePage ==
    /\ sfs.calls < MaxSfsCalls
    /\ \E page_id \in SfsDeleteIds :
          LET r == SingleFileStorage_delete_page(sfs, page_id)
          IN /\ sfs' = Counted(r.s)
             /\ last' = [SfsCall("delete_page", r.ret) EXCEPT !.page_id = page_id]
             /\ shadow' = IF r.ret
                          THEN [shadow EXCEPT !.live = @ \ {page_id},
                                              !.stray = @ \/ page_id \notin shadow.live]
                          ELSE shadow
    /\ UNCHANGED sfsOthers

\* the caller gives a page back: buffer_pool()->unpin_page(id, false)
SfsUnpin ==
    /\ sfs.calls < MaxSfsCalls
    /\ sfs.is_open
    /\ \E page_id \in DOMAIN sfs.page_table :
          /\ sfs.frames[sfs.page_table[page_id]].pin_count > 0
          /\ sfs' = Counted(sfs_unpin_page(sfs, page_id))
    /\ last' = SfsCall("unpin_page", TRUE)
    /\ UNCHANGED <<shadow, sfsOthers>>

\* the file, while no object has it open, is replaced by one whose header
\* differs in one field; the stored checksum either fits the new header (a
\* file of another build) or is left as it was (a damaged file)
Damaged(h) ==
    LET changed == {[h EXCEPT !.magic = "NOTLUMN"],
                    [h EXCEPT !.version = OtherVersion],
                    [h EXCEPT !.page_size = OtherPageSize],
                    [h EXCEPT !.header_checksum = @ + 1]}
    IN changed \cup {[c EXCEPT !.header_checksum = calculate_header_checksum(c)]
                        : c \in changed \ {[h EXCEPT !.header_checksum = @ + 1]}}

SfsDamage ==
    /\ sfs.calls < MaxSfsCalls
    /\ ~sfs.is_open
    /\ sfs.file.exists
    /\ header_valid(sfs.file.header)
    /\ \E h \in Damaged(sfs.file.header) :
          sfs' = [Counted(sfs) EXCEPT !.file.header = h]
    /\ last' = SfsCall("damage", TRUE)
    /\ UNCHANGED <<shadow, sfsOthers>>

NextSfs == \/ SfsCreate \/ SfsOpen \/ SfsClose \/ SfsAgain \/ SfsNewPage
           \/ SfsDeletePage \/ SfsUnpin \/ SfsDamage

SpecSfs == InitSfs /\ [][NextSfs]_vars

\* C15: free_page_count() = page_count() - live pages (the header page is
\* live) = the length of the in-memory free-page list, after every call on an
\* open SingleFileStorage.
C15_FreeListStable ==
    sfs.is_open =>
       /\ free_page_count(sfs) = page_count(sfs) - (Cardinality(shadow.live) + 1)
       /\ free_page_count(sfs) = Len(sfs.free_page_list)

\* C16: new_page never returns page 0 nor the id of a page that is live, and
\* every live page id is below page_count().
C16_NewPageFresh ==
    /\ (last.op = "new_page" /\ last.ret) =>
           (last.page_id # 0 /\ last.page_id \notin last.live_before)
    /\ sfs.is_open => \A p \in shadow.live : p < page_count(sfs)

\* C17: after close() and open() of the same file the in-memory free-page
\* list holds exactly the page ids that were free at close, and
\* free_page_count() is its length.
C17_FreeListSurvives ==
    (last.op = "open" /\ ~last.open_before /\ last.ret /\ shadow.closed
        /\ header_valid(last.file_before.header)) =>
       /\ SeqSet(sfs.free_page_list) = SeqSet(shadow.closed_free)
       /\ free_page_count(sfs) = Len(sfs.free_page_list)

\* C18: open succeeds only on a header with the expected magic, version and
\* page size and a checksum that validates; otherwise it returns failure, the
\* backend stays closed and the file is left as it was.
C18_OpenValidates ==
    (last.op = "open" /\ ~last.open_before /\ last.file_before.exists) =>
       IF header_valid(last.file_before.header) THEN TRUE
       ELSE /\ last.ret = FALSE
            /\ ~sfs.is_open
            /\ sfs.file = last.file_before

\* ---------------------------------------------------------------------------
\* A slotted page through the buffer pool and back: new_page, insert_record,
\* flush_page, BufferPool::reset, fetch_page, on either backend.
\*
\* page_obj holds the one page: the Page object in memory (its header_ fields
\* and body in P, the PageHeader image at the start of its bytes in raw), the
\* frame's dirty bit, and the page's place in the backend's file.
\* ---------------------------------------------------------------------------

PageType_Data == 2
PageType_Index == 3
PageTypeV2_DATA == 3
PageTypeV2_BTREE_LEAF == 5

Backends == {"StorageEngine", "SingleFileStorage"}

\* the types a caller may ask new_page for
NewPageTypes(backend) ==
    IF backend = "StorageEngine" THEN {PageType_Data, PageType_Index}
    ELSE {PageTypeV2_DATA, PageTypeV2_BTREE_LEAF}

NoSlotPage == [null |-> TRUE]

\* the PageHeader fields as they lie in the first bytes of the page
header_image(pg) ==
    [page_id |-> pg.page_id, page_type |-> pg.page_type,
     free_space_offset |-> pg.P.free_space_offset,
     free_space_size |-> pg.P.free_space_size,
     slot_count |-> pg.P.slot_count]

sync_header_to_data(pg) == [pg EXCEPT !.raw = header_image(pg)]

sync_header_from_data(pg) ==
    [pg EXCEPT !.page_id = pg.raw.page_id,
               !.page_type = pg.raw.page_type,
               !.P.free_space_offset = pg.raw.free_space_offset,
               !.P.free_space_size = pg.raw.free_space_size,
               !.P.slot_count = pg.raw.slot_count]

\* Page::Page(page_id)
SlotPage(page_id) ==
    sync_header_to_data([null |-> FALSE, page_id |-> page_id,
                         page_type |-> PageType_Data, P |-> PageNew,
                         raw |-> <<>>])

\* PageFactory::create_page
PageFactory_create_page(page_id, type) ==
    sync_header_to_data([SlotPage(page_id) EXCEPT !.page_type = type])

\* Page::serialize_to: the header is copied into the bytes, then the bytes out
SlotPage_serialize_to(pg) == [raw |-> header_image(pg), data |-> pg.P.data]

\* PageFactory::load_page
PageFactory_load_page(page_id, img) ==
    sync_header_from_data([SlotPage(page_id) EXCEPT !.raw = img.raw,
                                                    !.P.data = img.data])

RECURSIVE byte_sum(_, _)
byte_sum(data, o) ==
    IF o \notin DOMAIN data THEN 0
    ELSE ((o + 1) * data[o] + 31 * byte_sum(data, o + 1)) % 1048576

\* crc32 over the bytes behind PageHeaderV2, reduced to a hash of the body
page_crc32(data) == byte_sum(data, PageHeader_kSize)

\* StorageEngine::write_page_to_disk: the page file is opened with
\* std::ios::app, every write lands behind the last one
StorageEngine_write_page_to_disk(file, pg) == Append(file, SlotPage_serialize_to(pg))

\* StorageEngine::read_page_from_disk
StorageEngine_read_page_from_disk(file, page_id) ==
    IF Len(file) # 1 THEN NoSlotPage
    ELSE PageFactory_load_page(page_id, file[1])

\* SingleFileStorage::write_page_to_disk stores its CRC in bytes 8..11 of the
\* page's own bytes, where PageHeader keeps free_space_size and slot_count;
\* the result is the page in memory and the file
SingleFileStorage_write_page_to_disk(file, pg) ==
    LET crc == page_crc32(pg.P.data)
        pg1 == [pg EXCEPT !.raw.free_space_size = crc % 65536,
                          !.raw.slot_count = crc \div 65536]
    IN [page |-> pg1, file |-> <<[raw |-> pg1.raw, data |-> pg1.P.data]>>]

\* SingleFileStorage::read_page_from_disk
SingleFileStorage_read_page_from_disk(file, page_id) ==
    IF Len(file) # 1 THEN NoSlotPage
    ELSE LET img == file[1]
             page == [SlotPage(page_id) EXCEPT !.raw = img.raw, !.P.data = img.data]
         IN IF page_crc32(img.data) # img.raw.free_space_size + 65536 * img.raw.slot_count
            THEN NoSlotPage
            ELSE page

\* the pool hands a dirty page to the backend it was built on
write_page_to_backend(b) ==
    IF b.backend = "StorageEngine"
    THEN [b EXCEPT !.file = StorageEngine_write_page_to_disk(b.file, b.page)]
    ELSE LET w == SingleFileStorage_write_page_to_disk(b.file, b.page)
         IN [b EXCEPT !.file = w.file, !.page = w.page]

read_page_from_backend(b) ==
    IF b.backend = "StorageEngine"
    THEN StorageEngine_read_page_from_disk(b.file, b.page_id)
    ELSE SingleFileStorage_read_page_from_disk(b.file, b.page_id)

\* what a caller can see of a page
Seen(pg) ==
    [page_id |-> pg.page_id, page_type |-> pg.page_type,
     slot_count |-> pg.P.slot_count,
     records |-> [slot_id \in SlotIds |-> get_record(pg.P, slot_id)]]

rtOthers == <<pages, disk, frame_dirty, free_pages, next_page_id,
              root_page_id, height, size, aborted, attached, pool, thr,
              tree, sfs, pool_room, allow_duplicates, last>>

InitRoundTrip ==
    /\ \E backend \in Backends :
          page_obj = [backend |-> backend, stage |-> "open", page_id |-> 1,
                      page |-> NoSlotPage, is_dirty |-> FALSE, file |-> <<>>]
    /\ shadow = NoSlotPage
    /\ last = NotUsed
    /\ pages = EmptyStorage.pages
    /\ disk = EmptyStorage.disk
    /\ frame_dirty = {}
    /\ free_pages = {}
    /\ next_page_id = 1
    /\ root_page_id = kInvalidPageID
    /\ height = 0
    /\ size = 0
    /\ aborted = FALSE
    /\ attached = FALSE
    /\ pool = NotUsed /\ thr = NotUsed /\ tree = NotUsed /\ sfs = NotUsed
    /\ pool_room = BufferPoolConfig_pool_size
    /\ allow_duplicates = FALSE

\* new_page(type): a fresh page in a frame that is dirty and pinned
RtNewPage ==
    /\ page_obj.stage = "open"
    /\ \E type \in NewPageTypes(page_obj.backend) :
          page_obj' = [page_obj EXCEPT
                          !.stage = "created",
                          !.page = PageFactory_create_page(page_obj.page_id, type),
                          !.is_dirty = TRUE]
    /\ UNCHANGED <<shadow, rtOthers>>

RtInsertRecord ==
    /\ page_obj.stage = "created"
    /\ \E record \in Records :
          LET r == insert_record(page_obj.page.P, record)
          IN page_obj' = [page_obj EXCEPT
                             !.page = sync_header_to_data([@ EXCEPT !.P = r.page])]
    /\ UNCHANGED <<shadow, rtOthers>>

\* flush_page: BufferPool::flush_page writes the frame's page if it is dirty
RtFlush ==
    /\ page_obj.stage = "created"
    /\ page_obj.page.P.slot_count > 0
    /\ shadow' = Seen(page_obj.page)
    /\ page_obj' = IF page_obj.is_dirty
                   THEN [write_page_to_backend(page_obj) EXCEPT
                            !.is_dirty = FALSE, !.stage = "flushed"]
                   ELSE [page_obj EXCEPT !.stage = "flushed"]
    /\ UNCHANGED rtOthers

\* buffer_pool()->reset(): the frame is emptied
RtDrop ==
    /\ page_obj.stage = "flushed"
    /\ page_obj' = [page_obj EXCEPT !.stage = "dropped", !.page = NoSlotPage,
                                    !.is_dirty = FALSE]
    /\ UNCHANGED <<shadow, rtOthers>>

\* fetch_page: a miss, the page is read from the backend
RtFetch ==
    /\ page_obj.stage = "dropped"
    /\ page_obj' = [page_obj EXCEPT !.stage = "fetched",
                                    !.page = read_page_from_backend(page_obj)]
    /\ UNCHANGED <<shadow, rtOthers>>

NextRoundTrip == RtNewPage \/ RtInsertRecord \/ RtFlush \/ RtDrop \/ RtFetch

SpecRoundTrip == InitRoundTrip /\ [][NextRoundTrip]_vars

\* C19: a page created with new_page, filled through insert_record, flushed,
\* dropped from the pool and fetched again has the page id, page type, slot
\* count and record bytes at every slot it had when it was written, on both
\* backends.
C19_PageRoundTrip ==
    page_obj.stage = "fetched" =>
       /\ ~page_obj.page.null
       /\ Seen(page_obj.page) = shadow

\* ---------------------------------------------------------------------------
\* BufferPool: the statistics of concurrent fetch_page calls
\* ---------------------------------------------------------------------------

\* threads fetch pages of a pool of its own and give back pins they hold,
\* leaving the pages as they are;
\* pool.calls counts the fetch_page calls made
StatsCall(t) ==
    /\ thr[t].pc = "idle"
    /\ \/ /\ pool.calls < MaxPoolCalls
          /\ \E page_id \in PoolPageIds :
                thr' = [thr EXCEPT ![t] = [Idle EXCEPT
                                             !.pc = first_step("fetch_page"),
                                             !.op = "fetch_page",
                                             !.page_id = page_id]]
          /\ pool' = [pool EXCEPT !.calls = @ + 1,
                                  !.stats = stats_fetch_add(@, "page_requests")]
       \/ /\ \E page_id \in PoolPageIds :
                /\ pool.page_table[page_id] # kInvalidFrameID
                /\ pool.frames[pool.page_table[page_id]].pin_count > 0
                /\ thr' = [thr EXCEPT ![t] = [Idle EXCEPT
                                                !.pc = first_step("unpin_page"),
                                                !.op = "unpin_page",
                                                !.page_id = page_id]]
          /\ UNCHANGED pool
    /\ UNCHANGED <<treeVars, attached>>

InitPoolStats ==
    /\ pool = BufferPoolNew
    /\ thr = [t \in Threads |-> Idle]
    /\ attached = FALSE
    /\ NoTreeData
    /\ tree = NotUsed

NextPoolStats ==
    \E t \in Threads :
       \/ StatsCall(t)
       \/ FetchLookup(t)
       \/ FetchFrame(t)
       \/ ReadPage(t)
       \/ FindFreeFrame(t)
       \/ SelectVictim(t)
       \/ EvictLock(t)
       \/ EvictErase(t)
       \/ InstallLock(t)
       \/ InstallTable(t)
       \/ UnpinLookup(t)
       \/ UnpinFrame(t)

SpecPoolStats == InitPoolStats /\ [][NextPoolStats]_vars

\* the fetch_page calls that have counted their request and not yet a hit or
\* a miss
undecided_fetches == {t \in Threads : thr[t].pc \in {"fetch_lookup", "fetch_frame"}}

\* C21: however concurrent fetch_page calls interleave, every call is counted
\* once as a request and once as a hit or a miss: page_requests is hits plus
\* misses plus the calls that have not decided yet, and once all calls have
\* returned page_requests is the number of calls made and equals
\* page_hits + page_misses.
C21_StatsExact ==
    /\ pool.stats.page_requests =
          pool.stats.page_hits + pool.stats.page_misses
             + Cardinality(undecided_fetches)
    /\ (\A t \in Threads : thr[t].pc = "idle") =>
          /\ pool.stats.page_requests = pool.calls
          /\ pool.stats.page_requests = pool.stats.page_hits + pool.stats.page_misses

\* all calls have returned after hits, misses, an eviction and a fetch that
\* found no frame
C21_Witness ==
    /\ \A t \in Threads : thr[t].pc = "idle"
    /\ pool.calls = MaxPoolCalls
    /\ pool.stats.page_hits >= 1
    /\ pool.stats.page_misses >= 3
    /\ pool.pages_evicted >= 1
    /\ \E t \in Threads : thr[t].op = "fetch_page" /\ thr[t].ret = "null"

(* -------------------- Page: free space and compaction ------------------ *)
\* the end of the slot directory
directory_end(P) == PageHeader_kSize + P.slot_count * sizeof_SlotEntry

\* C22: after any sequence of insert_record, update_record, delete_record
\* and compact, free_space_size is free_space_offset (the start of the
\* record heap) minus the end of the slot directory.
C22_FreeSpaceExact ==
    page_obj.free_space_size = page_obj.free_space_offset - directory_end(page_obj)

\* the bytes of the records the page holds
RECURSIVE live_bytes(_, _)
live_bytes(P, slot_id) ==
    IF slot_id >= P.slot_count THEN 0
    ELSE Len(get_record(P, slot_id)) + live_bytes(P, slot_id + 1)

\* the bytes of the page a live slot points at
record_range(P, slot_id) ==
    IF get_record(P, slot_id) = NoRecord THEN {}
    ELSE LET slot == slot_entry(P, slot_id)
         IN slot.offset..(slot.offset + slot.length - 1)

\* C23: compact() changes only the layout.  For every page the operations
\* can produce, compact leaves slot_count, the record of every live slot and
\* the free slots as they are, puts the live records side by side at the end
\* of the page (free_space_offset is the page size minus the bytes of the
\* live records, each record lies behind it and no two overlap), and applied
\* again changes nothing; the page a compact() call leaves is such a page.
C23_CompactLayoutOnly ==
    LET P == page_obj
        Q == compact(P)
    IN /\ Q.slot_count = P.slot_count
       /\ \A i \in SlotIds : get_record(Q, i) = get_record(P, i)
       /\ \A i \in 0..(P.slot_count - 1) :
             SlotEntry_is_free(slot_entry(P, i)) => SlotEntry_is_free(slot_entry(Q, i))
       /\ Q.free_space_offset = SlotPageSize - live_bytes(P, 0)
       /\ \A i \in SlotIds :
             /\ record_range(Q, i) \subseteq Q.free_space_offset..(SlotPageSize - 1)
             /\ \A j \in SlotIds \ {i} : record_range(Q, i) \cap record_range(Q, j) = {}
       /\ Q.wild = P.wild
       /\ compact(Q) = Q
       /\ last.op = "compact" => Q = P

\* a compact() call has closed the hole a deleted record left in front of a
\* record that is still there
C23_Witness ==
    /\ last.op = "compact"
    /\ last.space_before < available_space(page_obj)
    /\ \E i, j \in SlotIds :
          /\ i < j /\ j < page_obj.slot_count
          /\ SlotEntry_is_free(slot_entry(page_obj, i))
          /\ get_record(page_obj, j) # NoRecord
          /\ get_record(page_obj, j) = shadow[j]

(* --------------------------- Page: checksum ---------------------------- *)
\* A Page with its header_ and the bytes of its buffer: image is what the
\* last sync_header_to_data left in the first sizeof(PageHeader) bytes, P is
\* the page of the operations above (header_'s free-space fields, the slot
\* directory and the records).  A uint32_t is kept as its two 16-bit halves.
MaxSumCalls == 3
sizeof_PageHeader == 24
PageFlags_kDirty == 1

HeaderBytes == 0..(sizeof_PageHeader - 1)

uint32(n) == [hi |-> n \div 65536, lo |-> n % 65536]

\* the bytes of struct PageHeader: page_id at 0, page_type at 4, flags at 5,
\* free_space_offset at 6, free_space_size at 8, slot_count at 10, checksum
\* at 12, lsn at 16
header_bytes(pg) ==
    [o \in HeaderBytes |->
        CASE o = 0 -> pg.header_.page_id % 256
          [] o = 1 -> (pg.header_.page_id \div 256) % 256
          [] o = 4 -> pg.header_.page_type
          [] o = 5 -> pg.header_.flags
          [] o = 6 -> pg.P.free_space_offset % 256
          [] o = 7 -> pg.P.free_space_offset \div 256
          [] o = 8 -> pg.P.free_space_size % 256
          [] o = 9 -> pg.P.free_space_size \div 256
          [] o = 10 -> pg.P.slot_count % 256
          [] o = 11 -> pg.P.slot_count \div 256
          [] o = 12 -> pg.header_.checksum.lo % 256
          [] o = 13 -> pg.header_.checksum.lo \div 256
          [] o = 14 -> pg.header_.checksum.hi % 256
          [] o = 15 -> pg.header_.checksum.hi \div 256
          [] OTHER -> 0]

\* Page::sync_header_to_data
Page_sync_header_to_data(pg) ==
    CHOOSE r \in {[p EXCEPT !.image = header_bytes(p)] : p \in {pg}} : TRUE

\* one byte of the page's buffer
page_byte(pg, o) ==
    IF o \in HeaderBytes THEN pg.image[o] ELSE raw_data(pg.P, o)

\* checksum = checksum * 31 + byte, in uint32_t
hash_step(c, byte) ==
    [hi |-> (c.hi * 31 + (c.lo * 31 + byte) \div 65536) % 65536,
     lo |-> (c.lo * 31 + byte) % 65536]

\* three turns of the loop at once:
\* ((c * 31 + b0) * 31 + b1) * 31 + b2 = c * 29791 + b0 * 961 + b1 * 31 + b2
hash_step3(c, b0, b1, b2) ==
    [hi |-> (c.hi * 29791 + (c.lo * 29791 + b0 * 961 + b1 * 31 + b2) \div 65536) % 65536,
     lo |-> (c.lo * 29791 + b0 * 961 + b1 * 31 + b2) % 65536]

\* the bytes Page::calculate_checksum reads, in the order of its two loops:
\* 0 to 15, then 20 to the end of the page
hashed_bytes(pg) ==
    [i \in 1..(SlotPageSize - 4) |-> page_byte(pg, IF i <= 16 THEN i - 1 ELSE i + 3)]

\* the checksum after the first n of them
RECURSIVE hash_turns(_, _)
hash_turns(bytes, n) ==
    IF n = 0 THEN uint32(0)
    ELSE IF n % 3 # 0
    THEN CHOOSE r \in {hash_step(c, bytes[n]) : c \in {hash_turns(bytes, n - 1)}} : TRUE
    ELSE CHOOSE r \in {hash_step3(c, bytes[n - 2], bytes[n - 1], bytes[n]) :
                          c \in {hash_turns(bytes, n - 3)}} : TRUE

\* Page::calculate_checksum
Page_calculate_checksum(pg) ==
    CHOOSE r \in {hash_turns(bytes, SlotPageSize - 4) : bytes \in {hashed_bytes(pg)}} : TRUE

\* Page::verify_checksum
Page_verify_checksum(pg) == pg.header_.checksum = Page_calculate_checksum(pg)

\* Page::update_checksum
Page_update_checksum(pg) ==
    CHOOSE r \in {Page_sync_header_to_data(
                     [p EXCEPT !.header_.checksum = Page_calculate_checksum(p)]) :
                  p \in {pg}} : TRUE

\* Page::Page
SumPage(page_id) ==
    Page_sync_header_to_data(
        [header_ |-> [page_id |-> page_id, page_type |-> PageType_Data,
                      flags |-> 0, checksum |-> uint32(0)],
         P |-> PageNew,
         image |-> [o \in HeaderBytes |-> 0]])

\* PageFactory::create_page
SumCreatePage(page_id, type) ==
    LET pg == Page_update_checksum(
                 [SumPage(page_id) EXCEPT !.header_.page_type = type,
                                          !.header_.flags = PageFlags_kDirty])
    IN [pg EXCEPT !.header_.flags = 0]

\* the end of an operation that changed the page: mark_dirty(),
\* update_checksum()
changed(pg, P) ==
    Page_update_checksum([pg EXCEPT !.P = P, !.header_.flags = PageFlags_kDirty])

\* Page::compact as a whole
Page_compact(pg) ==
    IF pg.P.slot_count = 0 THEN pg ELSE changed(pg, compact(pg.P))

\* Page::insert_record as a whole; summed tells whether it got as far as
\* update_checksum()
Page_insert_record(pg, record) ==
    LET need_new_slot == find_free_slot(pg.P) = kNoSlot
        required_space == Len(record) + (IF need_new_slot THEN sizeof_SlotEntry ELSE 0)
        compacted == {IF available_space(pg.P) < required_space
                      THEN Page_compact(pg) ELSE pg}
    IN CHOOSE x \in {IF r.slot_id = kNoSlot
                     THEN [page |-> pg1, slot_id |-> kNoSlot, summed |-> FALSE]
                     ELSE [page |-> changed(pg1, r.page), slot_id |-> r.slot_id,
                           summed |-> TRUE] :
                     pg1 \in compacted, r \in {insert_record(p.P, record) : p \in compacted}} :
          TRUE

\* Page::delete_record as a whole
Page_delete_record(pg, slot_id) ==
    LET r == delete_record(pg.P, slot_id)
    IN IF r.result THEN [page |-> changed(pg, r.page), result |-> TRUE, summed |-> TRUE]
       ELSE [page |-> pg, result |-> FALSE, summed |-> FALSE]

\* Page::update_record as a whole: a record of another size is deleted and
\* inserted, and its slot entry moved back after the last update_checksum()
Page_update_record(pg, slot_id, record) ==
    IF ~has_slot(pg.P, slot_id) \/ SlotEntry_is_free(slot_entry(pg.P, slot_id))
    THEN [page |-> pg, result |-> FALSE, summed |-> FALSE]
    ELSE IF Len(record) = slot_entry(pg.P, slot_id).length
    THEN [page |-> changed(pg, update_record(pg.P, slot_id, record).page),
          result |-> TRUE, summed |-> TRUE]
    ELSE CHOOSE x \in
            {IF ins.slot_id = kNoSlot
             THEN [page |-> ins.page, result |-> FALSE, summed |-> FALSE]
             ELSE IF ins.slot_id # slot_id
             THEN [page |-> [ins.page EXCEPT
                               !.P = mark_free(
                                        set_slot(@, slot_id,
                                                 slot_entry(@, ins.slot_id).offset,
                                                 slot_entry(@, ins.slot_id).length),
                                        ins.slot_id)],
                   result |-> TRUE, summed |-> FALSE]
             ELSE [page |-> ins.page, result |-> TRUE, summed |-> TRUE] :
             ins \in {Page_insert_record(deleted, record) :
                         deleted \in {Page_delete_record(pg, slot_id).page}}} : TRUE

\* last: the call, whether update_checksum() was the last thing that touched
\* the page in it, and the number of calls so far
SumCall(op, summed) == [op |-> op, summed |-> summed, calls |-> last.calls + 1]

sumOthers == <<pages, disk, frame_dirty, free_pages, next_page_id,
               root_page_id, height, size, aborted, attached, pool, thr,
               tree, sfs, pool_room, allow_duplicates, shadow>>

InitPageSum ==
    /\ \E type \in {PageType_Data, PageType_Index} :
          page_obj = SumCreatePage(1, type)
    /\ last = [op |-> "create_page", summed |-> FALSE, calls |-> 0]
    /\ shadow = NotUsed
    /\ pages = EmptyStorage.pages
    /\ disk = EmptyStorage.disk
    /\ frame_dirty = {}
    /\ free_pages = {}
    /\ next_page_id = 1
    /\ root_page_id = kInvalidPageID
    /\ height = 0
    /\ size = 0
    /\ aborted = FALSE
    /\ attached = FALSE
    /\ pool = NotUsed /\ thr = NotUsed /\ tree = NotUsed /\ sfs = NotUsed
    /\ pool_room = BufferPoolConfig_pool_size
    /\ allow_duplicates = FALSE

SumInsertRecord ==
    /\ last.calls < MaxSumCalls
    /\ \E record \in Records :
          LET r == Page_insert_record(page_obj, record)
          IN /\ page_obj' = r.page
             /\ last' = SumCall("insert_record", r.summed)
    /\ UNCHANGED sumOthers

SumUpdateRecord ==
    /\ last.calls < MaxSumCalls
    /\ \E slot_id \in SlotIds, record \in Records :
          LET r == Page_update_record(page_obj, slot_id, record)
          IN /\ page_obj' = r.page
             /\ last' = SumCall("update_record", r.summed)
    /\ UNCHANGED sumOthers

SumDeleteRecord ==
    /\ last.calls < MaxSumCalls
    /\ \E slot_id \in SlotIds :
          LET r == Page_delete_record(page_obj, slot_id)
          IN /\ page_obj' = r.page
             /\ last' = SumCall("delete_record", r.summed)
    /\ UNCHANGED sumOthers

SumCompact ==
    /\ last.calls < MaxSumCalls
    /\ page_obj' = Page_compact(page_obj)
    /\ last' = SumCall("compact", page_obj.P.slot_count # 0)
    /\ UNCHANGED sumOthers

SumUpdateChecksum ==
    /\ last.calls < MaxSumCalls
    /\ page_obj' = Page_update_checksum(page_obj)
    /\ last' = SumCall("update_checksum", TRUE)
    /\ UNCHANGED sumOthers

NextPageSum ==
    \/ SumInsertRecord
    \/ SumUpdateRecord
    \/ SumDeleteRecord
    \/ SumCompact
    \/ SumUpdateChecksum

SpecPageSum == InitPageSum /\ [][NextPageSum]_vars

\* C24: right after update_checksum(), and so after every insert_record,
\* update_record, delete_record and compact that ends in it,
\* verify_checksum() returns true.
C24_ChecksumVerifies ==
    last.summed => Page_verify_checksum(page_obj)

\* ---------------------------------------------------------------------------
\* BufferPool: the page table and the frames
\* ---------------------------------------------------------------------------

\* no call is under way
quiescent == \A t \in Threads : thr[t].pc = "idle"

\* C25: whenever no call is under way, each page id is held by at most one
\* frame, every frame that holds a page is the page-table entry of that
\* page's id, and every page-table entry points at a frame that holds that
\* page.
C25_TableMatchesFrames ==
    quiescent =>
       /\ \A f, g \in FrameIds :
             (f # g /\ pool.frames[f].page # kInvalidPageID)
                => pool.frames[f].page # pool.frames[g].page
       /\ \A f \in FrameIds :
             pool.frames[f].page # kInvalidPageID
                => pool.page_table[pool.frames[f].page] = f
       /\ \A p \in PoolPageIds :
             pool.page_table[p] # kInvalidFrameID
                => pool.frames[pool.page_table[p]].page = p

\* ---------------------------------------------------------------------------
\* src/index/btree.cpp: the pages a tree operation takes from the pool
\*
\* tree is the operation under way: the calls of the pool its node routines
\* still have to make (todo) and the pin counts the frames had when it began.
\* ---------------------------------------------------------------------------

MaxTreeCalls == 6         \* calls of the pool in one run

\* the thread that calls
Caller == 1

PinTreeOps == {"insert", "remove", "find", "range_scan"}

NoTreeOp ==
    [op |-> "none", running |-> FALSE, todo |-> <<>>, routines |-> 0,
     pins_before |-> [f \in FrameIds |-> 0]]

\* the pages created so far
created_pages == 1..(pool.next_page_id - 1)

pool_call(op, page_id) == [op |-> op, page_id |-> page_id]

\* BTree::load_node: storage_->fetch_page(page_id); the PageRef goes out of
\* scope when the node has been read
load_node_calls(page_id) == <<pool_call("fetch_page", page_id)>>

\* BTree::save_node: storage_->fetch_page(id), the node written into the
\* page, storage_->flush_page(id)
save_node_calls(page_id) ==
    <<pool_call("fetch_page", page_id), pool_call("flush_page", page_id)>>

\* BTree::create_node: storage_->new_page(PageType::Index)
create_node_calls == <<pool_call("new_page", kInvalidPageID)>>

\* the node routines an operation can run next: the constructor creates and
\* saves the root, insert loads, saves and (splitting) creates nodes, remove
\* loads and saves, find and range_scan load
node_routines(op) ==
    (IF op \in {"BTree", "insert"} /\ pool.next_page_id \in PoolPageIds
     THEN {create_node_calls} ELSE {})
       \cup (IF op \in {"BTree", "insert", "remove"}
             THEN {save_node_calls(p) : p \in created_pages} ELSE {})
       \cup (IF op \in PinTreeOps
             THEN {load_node_calls(p) : p \in created_pages} ELSE {})

\* the variables an operation of the tree leaves alone here
treeVarsBut == <<pages, disk, frame_dirty, free_pages, next_page_id,
                 root_page_id, height, size, aborted, shadow, last,
                 page_obj, sfs, pool_room, allow_duplicates>>

pin_counts(P) == [f \in FrameIds |-> P.frames[f].pin_count]

InitTreePins ==
    /\ pool = BufferPoolNew
    /\ thr = [t \in Threads |-> Idle]
    /\ attached = TRUE
    /\ NoTreeData
    /\ tree = NoTreeOp

\* the tree is constructed, then insert, remove, find or range_scan is called
PinsBegin ==
    /\ ~tree.running
    /\ thr[Caller].pc = "idle"
    /\ pool.calls < MaxTreeCalls
    /\ \E op \in IF tree.op = "none" THEN {"BTree"} ELSE PinTreeOps :
          tree' = [NoTreeOp EXCEPT !.op = op, !.running = TRUE,
                                   !.pins_before = pin_counts(pool)]
    /\ UNCHANGED <<pool, thr, treeVarsBut, attached>>

\* the operation runs one of its node routines
PinsRoutine ==
    /\ tree.running
    /\ tree.todo = <<>>
    /\ thr[Caller].pc = "idle"
    /\ \E routine \in node_routines(tree.op) :
          /\ pool.calls + Len(routine) <= MaxTreeCalls
          /\ tree' = [tree EXCEPT !.todo = routine, !.routines = @ + 1]
    /\ UNCHANGED <<pool, thr, treeVarsBut, attached>>

\* the routine makes its next call of the pool; save_node returns when its
\* fetch_page gave no page
PinsCall ==
    /\ tree.running
    /\ tree.todo # <<>>
    /\ thr[Caller].pc = "idle"
    /\ IF thr[Caller].ret = "null" /\ tree.todo[1].op = "flush_page"
       THEN /\ tree' = [tree EXCEPT !.todo = <<>>]
            /\ thr' = [thr EXCEPT ![Caller] = Idle]
            /\ UNCHANGED pool
       ELSE LET call == tree.todo[1]
                page_id == IF call.op = "new_page" THEN pool.next_page_id
                           ELSE call.page_id
            IN /\ tree' = [tree EXCEPT !.todo = Tail(@)]
               /\ thr' = [thr EXCEPT ![Caller] =
                             [Idle EXCEPT !.pc = first_step(call.op),
                                          !.op = call.op,
                                          !.page_id = page_id]]
               /\ pool' = [pool EXCEPT
                             !.calls = @ + 1,
                             !.next_page_id = IF call.op = "new_page"
                                              THEN @ + 1 ELSE @,
                             !.stats = IF call.op = "fetch_page"
                                       THEN stats_fetch_add(@, "page_requests")
                                       ELSE @]
    /\ UNCHANGED <<treeVarsBut, attached>>

\* the operation returns to its caller
PinsReturn ==
    /\ tree.running
    /\ tree.todo = <<>>
    /\ tree.routines > 0
    /\ thr[Caller].pc = "idle"
    /\ tree' = [tree EXCEPT !.running = FALSE]
    /\ thr' = [thr EXCEPT ![Caller] = Idle]
    /\ UNCHANGED <<pool, treeVarsBut, attached>>

NextTreePins ==
    \/ PinsBegin
    \/ PinsRoutine
    \/ PinsCall
    \/ PinsReturn
    \/ FetchLookup(Caller)
    \/ FetchFrame(Caller)
    \/ ReadPage(Caller)
    \/ FindFreeFrame(Caller)
    \/ SelectVictim(Caller)
    \/ InstallLock(Caller)
    \/ InstallTable(Caller)
    \/ FlushLookup(Caller)
    \/ FlushFrame(Caller)
    \/ FlushWrite(Caller)
    \/ FlushClean(Caller)

SpecTreePins == InitTreePins /\ [][NextTreePins]_vars

\* a frame find_free_frame or evict_frame can hand out
evictable_frame(P) ==
    \/ P.free_frames # <<>>
    \/ \E f \in FrameIds : /\ P.frames[f].page # kInvalidPageID
                           /\ ~Frame_is_pinned(P.frames[f])

\* C26: when insert, remove, find or range_scan has returned, every page it
\* fetched or created is unpinned: each frame's pin count is what it was
\* before the call, and the pool still has a frame it can hand out.
C26_PinsBalanced ==
    (tree.op \in PinTreeOps /\ ~tree.running) =>
       /\ pin_counts(pool) = tree.pins_before
       /\ evictable_frame(pool)

\* C27: no dirty bit is lost.  With a storage engine behind the pool,
\* whenever no call is under way a frame that is not marked dirty holds the
\* bytes the backend has for its page: after unpin_page(id, true) has run
\* together with flush_page(id) the frame is still dirty or the backend
\* holds the modified page.
C27_NoLostDirtyBit ==
    (attached /\ quiescent) =>
       \A f \in FrameIds :
          (pool.frames[f].page # kInvalidPageID /\ ~pool.frames[f].is_dirty)
             => pool.disk[pool.frames[f].page] = pool.frames[f].ver

\* C28: a frame's pin count never goes below zero, whatever sequence of
\* fetch_page, new_page and unpin_page is called: the uint32_t counter,
\* read here as the signed number of the same bits, is never negative
\* (UINT32_MAX after a wrap), and so a frame whose pins have all been given
\* back is not pinned.
C28_PinCountNotBelowZero ==
    \A f \in FrameIds : pool.frames[f].pin_count >= 0

\* ---------------------------------------------------------------------------
\* BufferPool::reset and a database that is closed and opened again: one
\* caller, the calls of the pool one after the other
\* ---------------------------------------------------------------------------

\* BufferPool::reset: table and frames cleared, every frame free again, the
\* statistics and next_page_id_ back at their first values; the backend is
\* not touched
BufferPool_reset(P) ==
    [BufferPoolNew EXCEPT !.disk = P.disk, !.calls = P.calls]

\* the pages flush_all_pages finds dirty, going through the page table
dirty_pages(P) ==
    {p \in PoolPageIds : /\ P.page_table[p] # kInvalidFrameID
                         /\ P.frames[P.page_table[p]].page # kInvalidPageID
                         /\ P.frames[P.page_table[p]].is_dirty}

\* BufferPool::flush_all_pages where the writes of the pages in written
\* succeed
BufferPool_flush_all_pages(P, written) ==
    [P EXCEPT !.disk = [p \in PoolPageIds |->
                           IF p \in written THEN P.frames[P.page_table[p]].ver
                           ELSE P.disk[p]],
              !.frames = [f \in FrameIds |->
                            IF P.frames[f].page \in written
                               /\ P.page_table[P.frames[f].page] = f
                            THEN [P.frames[f] EXCEPT !.is_dirty = FALSE]
                            ELSE P.frames[f]]]

PoolReset ==
    /\ thr[Caller].pc = "idle"
    /\ pool.calls < MaxPoolCalls
    /\ pool' = [BufferPool_reset(pool) EXCEPT !.calls = @ + 1]
    /\ thr' = [thr EXCEPT ![Caller] = [Idle EXCEPT !.op = "reset"]]
    /\ UNCHANGED <<treeVars, attached>>

\* StorageEngine::close (the pages flushed) and a StorageEngine constructed
\* and opened for the same database: its pool is a new BufferPool
EngineReopen ==
    /\ attached
    /\ thr[Caller].pc = "idle"
    /\ pool.calls < MaxPoolCalls
    /\ \E written \in SUBSET dirty_pages(pool) :
          pool' = [BufferPool_reset(BufferPool_flush_all_pages(pool, written))
                      EXCEPT !.calls = @ + 1]
    /\ thr' = [thr EXCEPT ![Caller] = [Idle EXCEPT !.op = "reopen"]]
    /\ UNCHANGED <<treeVars, attached>>

InitPoolReset ==
    /\ pool = BufferPoolNew
    /\ thr = [t \in Threads |-> Idle]
    /\ attached \in BOOLEAN
    /\ NoTreeData
    /\ tree = NotUsed

NextPoolReset ==
    \/ PoolCall(Caller)
    \/ FetchLookup(Caller)
    \/ FetchFrame(Caller)
    \/ ReadPage(Caller)
    \/ FindFreeFrame(Caller)
    \/ SelectVictim(Caller)
    \/ EvictLock(Caller)
    \/ EvictWrite(Caller)
    \/ EvictErase(Caller)
    \/ InstallLock(Caller)
    \/ InstallTable(Caller)
    \/ UnpinLookup(Caller)
    \/ UnpinFrame(Caller)
    \/ DeleteLookup(Caller)
    \/ DeleteFrame(Caller)
    \/ FlushLookup(Caller)
    \/ FlushFrame(Caller)
    \/ FlushWrite(Caller)
    \/ FlushClean(Caller)
    \/ PoolReset
    \/ EngineReopen

SpecPoolReset == InitPoolReset /\ [][NextPoolReset]_vars

\* the page ids some frame holds
pool_resident(P) == {P.frames[f].page : f \in FrameIds} \ {kInvalidPageID}

\* the step in which new_page hands its page to the caller
new_page_returns(t) ==
    /\ thr[t].op = "new_page"
    /\ thr[t].pc = "install_table"
    /\ thr'[t].pc = "idle"

C29_NewPageStep ==
    \A t \in Threads :
       new_page_returns(t) =>
          /\ thr[t].page_id \notin pool_resident(pool)
          /\ pool.page_table[thr[t].page_id] = kInvalidFrameID
          /\ pool.disk[thr[t].page_id] = NoFile

\* C29: the page id new_page returns is, when it returns, neither the id of
\* a page some frame of the pool holds nor the id of a page the backend
\* stores, whatever calls went before (reset() and closing and reopening the
\* database among them).
C29_NewPageIdFresh == [][C29_NewPageStep]_vars

\* ---------------------------------------------------------------------------
\* SingleFileStorage::delete_page and the pool's copy of the page
\* ---------------------------------------------------------------------------

\* the page ids some frame of the object's pool holds
resident_pages(s) ==
    {s.frames[f].page_id : f \in SfsFrameIds} \ {kInvalidPageID}

\* C30: no page id is on the backend's free-page list while a frame of the
\* buffer pool holds it: after delete_page(id) returned true no frame caches
\* id, and the id of a pinned page (which the pool refuses to drop) is not
\* freed.
C30_FreedNotResident ==
    /\ sfs.is_open => SeqSet(sfs.free_page_list) \cap resident_pages(sfs) = {}
    /\ (last.op = "delete_page" /\ last.ret) =>
           last.page_id \notin resident_pages(sfs)

\* ---------------------------------------------------------------------------
\* BTree: the shape of the tree
\* ---------------------------------------------------------------------------

\* the node of page p as a descent loads it
node_of(p) == load_node(State(FALSE), p)

\* the pages of the tree other than the root
NonRootPages == Reachable(State(FALSE)) \ {root_page_id}

\* C31: after any inserts and removes every node but the root holds at least
\* min_keys and at most 2 * min_degree - 1 keys.
C31_NodeFill ==
    ~aborted =>
       \A p \in NonRootPages :
          /\ num_keys(node_of(p)) >= min_keys(node_of(p))
          /\ num_keys(node_of(p)) <= max_keys

\* the internal nodes of the tree
InternalPages == {p \in Reachable(State(FALSE)) : is_internal(node_of(p))}

\* the keys of the leaves below (and at) page_id
RECURSIVE SubtreeKeys(_, _)
SubtreeKeys(page_id, fuel) ==
    IF page_id \notin PageIds \/ fuel = 0 \/ node_of(page_id) = NoPage THEN {}
    ELSE IF is_leaf(node_of(page_id))
    THEN {node_of(page_id).keys[i] : i \in 1..num_keys(node_of(page_id))}
    ELSE UNION {SubtreeKeys(node_of(page_id).children[i], fuel - 1) :
                   i \in 1..Len(node_of(page_id).children)}

\* children_.size() = num_keys + 1 in every internal node
children_counted ==
    \A p \in InternalPages :
       Len(node_of(p).children) = num_keys(node_of(p)) + 1

\* the keys left and right of every separator
separators_hold ==
    \A p \in InternalPages :
       \A i \in 1..num_keys(node_of(p)) :
          /\ i <= Len(node_of(p).children) =>
                \A k \in SubtreeKeys(node_of(p).children[i], MaxPages) :
                   k < node_of(p).keys[i]
          /\ i + 1 <= Len(node_of(p).children) =>
                \A k \in SubtreeKeys(node_of(p).children[i + 1], MaxPages) :
                   k >= node_of(p).keys[i]

\* C32: after any inserts and removes every internal node has num_keys + 1
\* children, the keys below child i are less than separator i and the keys
\* below child i + 1 are at least separator i.
C32_SeparatorsHold ==
    ~aborted => (children_counted /\ separators_hold)

\* the leaves below page_id from left to right, as an in-order traversal
\* from the root meets them
RECURSIVE InOrderLeaves(_, _)
InOrderLeaves(page_id, fuel) ==
    IF page_id \notin PageIds \/ fuel = 0 \/ node_of(page_id) = NoPage THEN <<>>
    ELSE IF is_leaf(node_of(page_id)) THEN <<page_id>>
    ELSE LET RECURSIVE Across(_)
             Across(i) ==
                IF i > Len(node_of(page_id).children) THEN <<>>
                ELSE InOrderLeaves(node_of(page_id).children[i], fuel - 1)
                        \o Across(i + 1)
         IN Across(1)

\* the leaves met by following next_leaf() from page_id
RECURSIVE LinkedLeaves(_, _)
LinkedLeaves(page_id, fuel) ==
    IF page_id \notin PageIds \/ fuel = 0 \/ node_of(page_id) = NoPage THEN <<>>
    ELSE <<page_id>> \o LinkedLeaves(node_of(page_id).next_id, fuel - 1)

leaves_in_order == InOrderLeaves(root_page_id, MaxPages)

\* the keys of the leaves of a list, one leaf after the other
RECURSIVE KeysAlong(_)
KeysAlong(leaves) ==
    IF leaves = <<>> THEN <<>>
    ELSE node_of(Head(leaves)).keys \o KeysAlong(Tail(leaves))

ascending(keys) == \A i, j \in 1..Len(keys) : i < j => keys[i] < keys[j]

\* C33: after any inserts and removes the next-leaf links from the leftmost
\* leaf visit every leaf once, in the order of an in-order traversal and in
\* ascending key order, and the next leaf's previous leaf is the leaf itself.
C33_LeafChain ==
    ~aborted =>
       /\ LinkedLeaves(Head(leaves_in_order), MaxPages + 1) = leaves_in_order
       /\ ascending(KeysAlong(LinkedLeaves(Head(leaves_in_order), MaxPages + 1)))
       /\ \A i \in 1..Len(leaves_in_order) :
             LET leaf == node_of(leaves_in_order[i])
             IN leaf.next_id # kInvalidPageID =>
                   /\ node_of(leaf.next_id) # NoPage
                   /\ node_of(leaf.next_id).prev_id = leaf.page_id

\* the numbers of levels on the paths from page_id down to the leaves below
\* it, page_id lying on level number depth
RECURSIVE LeafDepths(_, _, _)
LeafDepths(page_id, depth, fuel) ==
    IF page_id \notin PageIds \/ fuel = 0 \/ node_of(page_id) = NoPage THEN {}
    ELSE IF is_leaf(node_of(page_id)) THEN {depth}
    ELSE UNION {LeafDepths(node_of(page_id).children[i], depth + 1, fuel - 1) :
                   i \in 1..Len(node_of(page_id).children)}

\* every leaf lies height levels deep
leaves_level == LeafDepths(root_page_id, 1, MaxPages) = {height}

root_node == node_of(root_page_id)

child_ids(node) == {node.children[i] : i \in 1..Len(node.children)}

\* a call that returns: the root changes only by a root split, which puts
\* the old root below a new internal root and adds a level, or by the
\* promotion of a child of a root left without keys, which takes one away
C34_HeightStep ==
    ~aborted' =>
       /\ root_page_id' = root_page_id => height' = height
       /\ root_page_id' # root_page_id =>
             \/ /\ height' = height + 1
                /\ is_internal(root_node')
                /\ root_page_id \in child_ids(root_node')
             \/ /\ height' = height - 1
                /\ is_internal(root_node)
                /\ num_keys(root_node) = 0
                /\ root_page_id' \in child_ids(root_node)

index_root == fetch_page(State(FALSE), root_page_id)

\* BTreeIndex::insert has installed a new root: it is an internal page with
\* one key over the old root and the leaf split off it, one level higher
C35_IndexRootSplitStep ==
    (~aborted' /\ last'.op = "insert" /\ root_page_id' # root_page_id) =>
        /\ height' = height + 1
        /\ index_root' # NoPage
        /\ index_root'.node_type = BTreePageType_Internal
        /\ index_root'.key_count = 1
        /\ get_child_page_id(index_root', 0) = root_page_id
        /\ get_child_page_id(index_root', 1) = next_page_id
        /\ next_page_id' = next_page_id + 2

\* C35: when an insert splits the root, the new root is an internal node
\* with exactly one separator key and exactly two children, the old root
\* and its new right sibling, and height grows by exactly one (BTreeIndex).
C35_RootSplit == [][C35_IndexRootSplitStep]_vars

(* ================== a BTree that allows duplicate keys ================== *)
\* Keys 1..MaxDupKey are inserted into the tree that allows duplicates
MaxDupKey == 3
\* Calls of BTree::insert in one run of that tree
MaxDupInserts == 6

DupKeys == 1..MaxDupKey

\* shadow holds, per key, the values inserted for it in the order of the
\* inserts
RECURSIVE inserted_from(_)
inserted_from(key) ==
    IF key > MaxDupKey THEN 0 ELSE Len(shadow[key]) + inserted_from(key + 1)

\* the inserts that returned true so far
inserted == inserted_from(1)

\* BTree::BTree with config.allow_duplicates = true
InitBTreeDup ==
    /\ pages = BTreeNew.pages
    /\ disk = BTreeNew.disk
    /\ frame_dirty = BTreeNew.frame_dirty
    /\ free_pages = BTreeNew.free_pages
    /\ next_page_id = BTreeNew.next_page_id
    /\ root_page_id = BTreeNew.root_page_id
    /\ height = BTreeNew.height
    /\ size = BTreeNew.size
    /\ aborted = FALSE
    /\ attached = TRUE
    /\ allow_duplicates = TRUE
    /\ shadow = [k \in DupKeys |-> <<>>]
    /\ last = NoCall
    /\ pool = NotUsed /\ thr = NotUsed /\ tree = NotUsed
    /\ page_obj = NotUsed /\ sfs = NotUsed
    /\ pool_room = BufferPoolConfig_pool_size

\* BTree::insert.  The n-th entry of a key carries the value n, so that the
\* entries of one key can be told apart.
DupInsert ==
    /\ ~aborted
    /\ inserted < MaxDupInserts
    /\ \E key \in DupKeys, h \in BOOLEAN :
          \E r \in {insert_internal(State(h), key, Len(shadow[key]) + 1)} :
             /\ r.st.next_page_id <= MaxPages + 1
             /\ SetState(r.st)
             /\ shadow' = IF r.result /\ ~r.st.aborted
                          THEN [shadow EXCEPT ![key] = Append(@, Len(@) + 1)]
                          ELSE shadow
             /\ last' = [op |-> "insert", key |-> key,
                         held |-> shadow[key] # <<>>,
                         result |-> IF r.result THEN 1 ELSE 0]

\* BTree::find
DupFind ==
    /\ ~aborted
    /\ \E key \in DupKeys :
          /\ last' = [op |-> "find", key |-> key, held |-> shadow[key] # <<>>,
                      result |-> find_internal(State(FALSE), key)]
          /\ UNCHANGED <<pages, disk, frame_dirty, free_pages, next_page_id,
                         root_page_id, height, size, aborted, attached,
                         shadow, pool, thr, tree,
                         page_obj, sfs, pool_room, allow_duplicates>>

\* BTree::range_scan(key, key): the call records how many entries it returned
DupRangeScan ==
    /\ ~aborted
    /\ \E key \in DupKeys :
          \E r \in {range_scan(State(FALSE), key, key)} :
             /\ ~r.dead
             /\ last' = [op |-> "range_scan", key |-> key,
                         held |-> shadow[key] # <<>>,
                         result |-> Len(r.results)]
             /\ UNCHANGED <<pages, disk, frame_dirty, free_pages, next_page_id,
                            root_page_id, height, size, aborted, attached,
                            shadow, pool, thr, tree,
                            page_obj, sfs, pool_room, allow_duplicates>>

NextBTreeDup == DupInsert \/ DupFind \/ DupRangeScan

SpecBTreeDup == InitBTreeDup /\ [][NextBTreeDup]_vars

\* C36: with allow_duplicates, after a key has been inserted n times, size
\* counts every entry, range_scan(k, k) returns exactly the n entries of k
\* and find(k) returns the value of the entry inserted first.
C36_DuplicatesKept ==
    ~aborted =>
       /\ size = inserted
       /\ \A k \in DupKeys :
             /\ Len(range_scan(State(FALSE), k, k).results) = Len(shadow[k])
             /\ shadow[k] # <<>> => find_internal(State(FALSE), k) = shadow[k][1]

\* the records the page holds, by slot
live_records(P) == [i \in SlotIds |-> get_record(P, i)]

\* an update_record that returned false left every record as it was
C37_FailedUpdateStep ==
    (last'.op = "update_record" /\ ~last'.ok) =>
        live_records(page_obj') = live_records(page_obj)

\* C37: if update_record returns false, because the slot is out of range or
\* free or because the new record does not fit even after compaction, the
\* page's live records are unchanged: the record stored at slot_id is still
\* retrievable with its old bytes.
C37_FailedUpdateKeeps == [][C37_FailedUpdateStep]_vars

(* ============ src/storage/buffer_pool.cpp: ClockEvictionPolicy ========= *)
\* Frames of the pool the clock policy serves
ClockPoolSize == 3

ClockFrameIds == 0..(ClockPoolSize - 1)

\* the policy and the vector of frames select_victim is handed: a frame is
\* its pin count and whether it holds a page
ClockNew ==
    [frames |-> [f \in ClockFrameIds |-> [pin_count |-> 0, page |-> FALSE]],
     reference_bits |-> [f \in ClockFrameIds |-> FALSE],
     clock_hand |-> 0]

\* !frame.is_pinned() && frame.page
evictable(C, f) == ~Frame_is_pinned(C.frames[f]) /\ C.frames[f].page

\* a compare-and-exchange that never finds the bit set
cas_fails(C, current) == [exchanged |-> FALSE, clock |-> C]

\* reference_bits_[current].compare_exchange_weak(expected = true, false):
\* on x86-64 the exchange fails only when the bit differs from expected
compare_exchange_weak(C, current) ==
    IF C.reference_bits[current]
    THEN [exchanged |-> TRUE,
          clock |-> [C EXCEPT !.reference_bits[current] = FALSE]]
    ELSE [exchanged |-> FALSE, clock |-> C]

\* the second do-while loop of select_victim; visited counts the frames
\* looked at so far
RECURSIVE second_pass(_, _, _, _)
second_pass(C, start_hand, current, visited) ==
    IF evictable(C, current)
    THEN [victim |-> current, visited |-> visited + 1,
          clock |-> [C EXCEPT !.reference_bits[current] = FALSE,
                              !.clock_hand = (current + 1) % ClockPoolSize]]
    ELSE IF (current + 1) % ClockPoolSize # start_hand
    THEN second_pass(C, start_hand, (current + 1) % ClockPoolSize, visited + 1)
    ELSE [victim |-> kInvalidFrameID, visited |-> visited + 1, clock |-> C]

\* the first do-while loop of select_victim
RECURSIVE first_pass(_, _, _, _)
first_pass(C0, start_hand, current, visited) ==
    With(IF evictable(C0, current) THEN compare_exchange_weak(C0, current)
         ELSE [exchanged |-> TRUE, clock |-> C0], LAMBDA r :
        IF evictable(C0, current) /\ ~r.exchanged
        THEN [victim |-> current, visited |-> visited + 1,
              clock |-> [r.clock EXCEPT
                            !.clock_hand = (current + 1) % ClockPoolSize]]
        ELSE IF (current + 1) % ClockPoolSize # start_hand
        THEN first_pass(r.clock, start_hand, (current + 1) % ClockPoolSize,
                        visited + 1)
        ELSE second_pass(r.clock, start_hand, start_hand, visited + 1))

\* ClockEvictionPolicy::select_victim
clock_select_victim(C) == first_pass(C, C.clock_hand, C.clock_hand, 0)

\* ClockEvictionPolicy::access_frame
access_frame(C, frame_id) ==
    IF frame_id >= ClockPoolSize THEN C
    ELSE [C EXCEPT !.reference_bits[frame_id] = TRUE]

\* ClockEvictionPolicy::reset
clock_reset(C) ==
    [C EXCEPT !.reference_bits = [f \in ClockFrameIds |-> FALSE],
              !.clock_hand = 0]

NoClockCall == [op |-> "none", victim |-> kInvalidFrameID, visited |-> 0,
                before |-> ClockNew]

clockOthers == <<pages, disk, frame_dirty, free_pages, next_page_id,
                 root_page_id, height, size, aborted, attached, shadow, thr,
                 tree, page_obj, sfs, pool_room, allow_duplicates>>

InitClock ==
    /\ pool = ClockNew
    /\ last = NoClockCall
    /\ pages = EmptyStorage.pages
    /\ disk = EmptyStorage.disk
    /\ frame_dirty = {}
    /\ free_pages = {}
    /\ next_page_id = 1
    /\ root_page_id = kInvalidPageID
    /\ height = 0
    /\ size = 0
    /\ aborted = FALSE
    /\ attached = FALSE
    /\ shadow = NotUsed
    /\ thr = NotUsed /\ tree = NotUsed /\ page_obj = NotUsed /\ sfs = NotUsed
    /\ pool_room = BufferPoolConfig_pool_size
    /\ allow_duplicates = FALSE

\* the pool installs a page in an empty frame, pinned (fetch_page, new_page)
ClockInstall ==
    \E f \in ClockFrameIds :
       /\ ~pool.frames[f].page
       /\ pool' = [pool EXCEPT !.frames[f] = [pin_count |-> 1, page |-> TRUE]]
       /\ last' = [NoClockCall EXCEPT !.op = "install"]
       /\ UNCHANGED clockOthers

\* Frame::pin on a cache hit
ClockPin ==
    \E f \in ClockFrameIds :
       /\ pool.frames[f].page
       /\ pool.frames[f].pin_count = 0
       /\ pool' = [pool EXCEPT !.frames[f].pin_count = 1]
       /\ last' = [NoClockCall EXCEPT !.op = "pin"]
       /\ UNCHANGED clockOthers

\* Frame::unpin
ClockUnpin ==
    \E f \in ClockFrameIds :
       /\ pool.frames[f].pin_count > 0
       /\ pool' = [pool EXCEPT !.frames[f].pin_count = @ - 1]
       /\ last' = [NoClockCall EXCEPT !.op = "unpin"]
       /\ UNCHANGED clockOthers

\* the pool empties an unpinned frame (evict_frame, delete_page)
ClockEmpty ==
    \E f \in ClockFrameIds :
       /\ evictable(pool, f)
       /\ pool' = [pool EXCEPT !.frames[f].page = FALSE]
       /\ last' = [NoClockCall EXCEPT !.op = "empty"]
       /\ UNCHANGED clockOthers

ClockAccessFrame ==
    \E frame_id \in 0..ClockPoolSize :
       /\ pool' = access_frame(pool, frame_id)
       /\ last' = [NoClockCall EXCEPT !.op = "access_frame"]
       /\ UNCHANGED clockOthers

ClockSelectVictim ==
    \E r \in {clock_select_victim(pool)} :
       /\ pool' = r.clock
       /\ last' = [op |-> "select_victim", victim |-> r.victim,
                   visited |-> r.visited, before |-> pool]
       /\ UNCHANGED clockOthers

ClockReset ==
    /\ pool' = clock_reset(pool)
    /\ last' = [NoClockCall EXCEPT !.op = "reset"]
    /\ UNCHANGED clockOthers

NextClock ==
    \/ ClockInstall \/ ClockPin \/ ClockUnpin \/ ClockEmpty
    \/ ClockAccessFrame \/ ClockSelectVictim \/ ClockReset

SpecClock == InitClock /\ [][NextClock]_vars

\* how far frame f lies ahead of the hand
hand_order(C, f) == (f - C.clock_hand) % ClockPoolSize

\* the first frame of a non-empty set in hand order
first_from_hand(C, S) ==
    CHOOSE f \in S : \A g \in S : hand_order(C, f) <= hand_order(C, g)

evictable_frames(C) == {f \in ClockFrameIds : evictable(C, f)}
clear_frames(C) == {f \in evictable_frames(C) : ~C.reference_bits[f]}

C38_WitnessSecondPass ==
    /\ last.op = "select_victim"
    /\ Cardinality(evictable_frames(last.before)) >= 2
    /\ clear_frames(last.before) = {}
    /\ last.victim # kInvalidFrameID
    /\ last.visited > ClockPoolSize

\* the internal nodes of the tree whose child list holds page p
parents_of(p) ==
    {q \in InternalPages : p \in child_ids(node_of(q))}

\* C39: after any inserts and removes the parent_id stored in every non-root
\* node is the page id of the internal node whose child list holds it, and
\* the root's parent_id is invalid.
C39_ParentIds ==
    ~aborted =>
       /\ root_node.parent_id = kInvalidPageID
       /\ \A p \in NonRootPages : parents_of(p) = {node_of(p).parent_id}

\* C40: in every reachable Page state free_space_size is the page size less
\* the header, the slot directory and the bytes of the live records, it
\* never wraps its 16 bits, and the slot directory ends at or before
\* free_space_offset, where the record heap starts.
C40_FreeSpaceAccounting ==
    /\ page_obj.free_space_size
          = SlotPageSize - directory_end(page_obj) - live_bytes(page_obj, 0)
    /\ SlotPageSize - directory_end(page_obj) - live_bytes(page_obj, 0) >= 0
    /\ page_obj.free_space_size < 65536
    /\ directory_end(page_obj) <= page_obj.free_space_offset

\* a delete_record has left a hole in the record heap: the space counted
\* free is more than the space between the directory and the heap, and a
\* record is still held
C40_Witness ==
    /\ last.op = "delete_record"
    /\ last.ok
    /\ live_bytes(page_obj, 0) > 0
    /\ page_obj.free_space_size
          > page_obj.free_space_offset - directory_end(page_obj)

============================================================================
